---- MODULE Spec2Model ----
(***************************************************************************)
(* Gridly: the resilient call wrapper (retry + circuit breaker), the       *)
(* model fallback chain and the cached summary actions, as state machines. *)
(* The runtime is a single-threaded event loop: every action below is one  *)
(* macrotask (an I/O completion, a timer, an incoming request) run to its  *)
(* next suspension point.                                                  *)
(***************************************************************************)
EXTENDS Integers, Sequences, FiniteSets, TLC

(* ---------------- program constants ---------------- *)

\* RETRY_CONFIG
maxRetries == 4
baseDelay == 1000
maxDelay == 30000

\* CIRCUIT_BREAKER_CONFIG
failureThreshold == 5
resetTimeout == 15000

\* CACHE_TTL = 10 * 60 * 1000, and the size limit of analysisCache
CACHE_TTL == 600000
CacheLimit == 100

\* MODEL_CONFIGS, in fallback priority order
MODEL_CONFIGS == <<"gemini-1.5-flash", "gemini-1.5-pro", "gemini-1.0-pro">>

\* the four analyses of parallelSpreadsheetAnalysis, in Promise.all order
AnalysisTypes == <<"insights", "columns", "rows", "quality">>

(* ---------------- state ---------------- *)

VARIABLES
  serviceStatus,   \* the module-level ServiceStatus of ai-retry-utils
  calls,           \* one record per withRetry call (top-level call and its retries)
  acts,            \* one record per request to a cached summary action
  analysisCache,   \* Map key -> AISummary, as the sequence of its entries
  cacheTimestamps, \* Map key -> store time, as the sequence of its entries
  upload,          \* the batch of files processFiles is working on
  page             \* the React state of the page component

vars == <<serviceStatus, calls, acts, analysisCache, cacheTimestamps,
          upload, page>>

\* the variables of the browser side
clientVars == <<upload, page>>

\* the variables of the summary actions and their cache
actionVars == <<acts, analysisCache, cacheTimestamps>>

\* callers that invoke withRetry directly (quick summary, anomaly detection,
\* report generation, ...)
DirectCalls == {<<0, "direct1">>, <<0, "direct2">>}

\* concurrent requests to the summary server actions
ActIds == {1, 2}

Range(f) == {f[i] : i \in DOMAIN f}

\* the withRetry calls a summary action makes
ParallelCalls(a) == {<<a, t>> : t \in Range(AnalysisTypes)}
ActCalls(a) == ParallelCalls(a) \cup {<<a, "specialized">>, <<a, "fallback">>}

CallIds == DirectCalls \cup UNION {ActCalls(a) : a \in ActIds}

(***************************************************************************)
(* Time.  The code compares Date.now() with stored instants only through   *)
(* differences, so the model keeps the differences themselves as clocks:   *)
(* timeSinceLastFailure is Date.now() - serviceStatus.lastFailureTime,     *)
(* saturated at resetTimeout (the code only asks whether it is below it),  *)
(* and remaining is the time left on a call's setTimeout.  lastFailureTime *)
(* = 0 (the epoch) is a saturated clock; lastFailureTime = Date.now() is   *)
(* the clock 0.                                                            *)
(***************************************************************************)

\* the healthy/closed value the module starts with and every reset writes
InitialStatus ==
  [isHealthy |-> TRUE, timeSinceLastFailure |-> resetTimeout,
   consecutiveFailures |-> 0, circuitBreakerOpen |-> FALSE]

\* pc: idle | running (await operation()) | backoff (await setTimeout) |
\*     ok (returned) | failed (threw err)
\* attempts counts the invocations of the operation in the top-level call,
\* trial marks an attempt let through by the expired-circuit branch
IdleCall ==
  [pc |-> "idle", retryCount |-> 0, attempts |-> 0,
   err |-> "none", msg |-> {}, remaining |-> 0, trial |-> FALSE]

Min(a, b) == IF a < b THEN a ELSE b

\* null / no summary, as a value no analysis produces
Null == [data |-> "", by |-> 0]

\* pc: idle | specialized | parallel | fallback (summarizeSpreadsheet) |
\*     streamInsights | streamColumns | streamRest | done
\* launched counts the analyses started after a cache miss, age is the
\* time the request has been in progress (saturated at CACHE_TTL),
\* arrivedOpen records that the circuit breaker was rejecting calls when the
\* request arrived, tried lists the model configurations executeWithFallback
\* has called the operation with
IdleAct ==
  [pc |-> "idle", kind |-> "none", data |-> "", modelIdx |-> 0,
   outcome |-> "none", summary |-> Null, error |-> "none",
   launched |-> 0, age |-> 0, arrivedOpen |-> FALSE, tried |-> <<>>]

\* the promises a summary action is suspended on
Awaited(a) ==
  CASE acts[a].pc = "specialized" -> {<<a, "specialized">>}
    [] acts[a].pc = "parallel" -> ParallelCalls(a)
    [] acts[a].pc = "fallback" -> {<<a, "fallback">>}
    [] acts[a].pc = "streamInsights" -> {<<a, "insights">>}
    [] acts[a].pc = "streamColumns" -> {<<a, "columns">>}
    [] acts[a].pc = "streamRest" -> {<<a, "rows">>, <<a, "quality">>}
    [] OTHER -> {}

\* Promise.all (or the single awaited call) has rejected / has resolved
Rejected(a) == \E c \in Awaited(a) : calls[c].pc = "failed"
Resolved(a) ==
  Awaited(a) # {} /\ \A c \in Awaited(a) : calls[c].pc = "ok"

\* the call whose rejection the action's catch receives
RejectingCall(a) ==
  LET failed == {i \in DOMAIN AnalysisTypes :
                   /\ <<a, AnalysisTypes[i]>> \in Awaited(a)
                   /\ calls[<<a, AnalysisTypes[i]>>].pc = "failed"}
  IN IF failed # {}
     THEN <<a, AnalysisTypes[CHOOSE i \in failed : \A j \in failed : i <= j]>>
     ELSE CHOOSE c \in Awaited(a) : calls[c].pc = "failed"

\* promise continuations run as microtasks before the event loop takes the
\* next request, I/O completion or timer: those wait until no action has a
\* settled promise to consume
Quiet == \A a \in ActIds : ~Rejected(a) /\ ~Resolved(a)

(* ---------------- browser state ---------------- *)

\* no batch has been handed to processFiles.  files is the batch as passed,
\* valid, docs, errors and remaining are the locals of the call, pending
\* the positions in valid whose FileReader is reading, alerts the alert()
\* texts of the call and delivered the arguments of its onProcess calls
IdleUpload ==
  [files |-> <<>>, valid |-> <<>>, docs |-> <<>>, errors |-> <<>>,
   remaining |-> 0, pending |-> {}, alerts |-> <<>>, delivered |-> <<>>]

\* the value null of the analysisResult state
NoResult == [kind |-> "null"]

\* the page as first rendered.  awaiting holds the arguments of the
\* handleFileProcess call that is waiting for its summary action, asking
\* the handleNewQuestion calls that are waiting for their chat action
InitialPage ==
  [isLoading |-> FALSE, error |-> "null", analysisResult |-> NoResult,
   toast |-> "none", awaiting |-> <<>>, asking |-> <<>>]

(* ---------------- cell values ---------------- *)

(***************************************************************************)
(* A JavaScript number is kept as an exact fraction n/d in lowest terms, a *)
(* string as the sequence of its characters.  A cell of a sheet read with  *)
(* raw: true is a number, a string or a hole (undefined).                  *)
(***************************************************************************)

Abs(x) == IF x < 0 THEN -x ELSE x

RECURSIVE GCD(_, _)
GCD(a, b) == IF b = 0 THEN a ELSE GCD(b, a % b)

Rat(n, d) ==
  LET g == GCD(Abs(n), d)
  IN [n |-> (IF n < 0 THEN -(Abs(n) \div g) ELSE n \div g), d |-> d \div g]

Zero == [n |-> 0, d |-> 1]

RatAdd(a, b) == Rat(a.n * b.d + b.n * a.d, a.d * b.d)
RatDivInt(a, k) == Rat(a.n, a.d * k)
RatLess(a, b) == a.n * b.d < b.n * a.d

Num(r) == [t |-> "number", n |-> r, s |-> <<>>]
Str(chars) == [t |-> "string", n |-> Zero, s |-> chars]
Undefined == [t |-> "undefined", n |-> Zero, s |-> <<>>]

\* the empty string
Blank == Str(<<>>)

(* ---------------- parseFloat and parseNumericString ---------------- *)

Digits == <<"0", "1", "2", "3", "4", "5", "6", "7", "8", "9">>
IsDigit(c) == \E i \in DOMAIN Digits : Digits[i] = c
DigitValue(c) == (CHOOSE i \in DOMAIN Digits : Digits[i] = c) - 1

\* white space, as matched by trim() and by \s
Spaces == {" ", "\t", "\n"}

\* the currency symbols of the normalizer: dollar, pound, euro, naira
CurrencySymbols == {"$", "pound", "euro", "naira"}

TrimStart(chars) ==
  LET keep == {i \in DOMAIN chars : chars[i] \notin Spaces}
  IN IF keep = {} THEN <<>>
     ELSE SubSeq(chars, CHOOSE i \in keep : \A j \in keep : i <= j, Len(chars))

Trim(chars) ==
  LET keep == {i \in DOMAIN chars : chars[i] \notin Spaces}
  IN IF keep = {} THEN <<>>
     ELSE SubSeq(chars, CHOOSE i \in keep : \A j \in keep : i <= j,
                        CHOOSE i \in keep : \A j \in keep : j <= i)

\* the length of the longest prefix of digits
DigitsPrefixLen(chars) ==
  CHOOSE k \in 0..Len(chars) :
    /\ \A i \in 1..k : IsDigit(chars[i])
    /\ k = Len(chars) \/ ~IsDigit(chars[k + 1])

RECURSIVE DigitsValue(_)
DigitsValue(chars) ==
  IF chars = <<>> THEN 0
  ELSE 10 * DigitsValue(SubSeq(chars, 1, Len(chars) - 1))
         + DigitValue(chars[Len(chars)])

\* the number NaN
NaN == [ok |-> FALSE, v |-> Zero]

\* the longest prefix of digits
LeadingDigits(chars) == SubSeq(chars, 1, DigitsPrefixLen(chars))

\* the digits of the fraction, when the text after the integer part starts
\* with a point
FractionDigits(rest) ==
  IF rest # <<>> /\ rest[1] = "." THEN LeadingDigits(Tail(rest)) ELSE <<>>

\* the number written by the digits whole and frac, NaN when there is
\* no digit at all
FloatValue(negative, whole, frac) ==
  IF whole = <<>> /\ frac = <<>> THEN NaN
  ELSE [ok |-> TRUE,
        v |-> Rat((IF negative THEN -1 ELSE 1)
                    * (DigitsValue(whole) * (10 ^ Len(frac)) + DigitsValue(frac)),
                  10 ^ Len(frac))]

UnsignedFloat(negative, body) ==
  FloatValue(negative, LeadingDigits(body),
             FractionDigits(SubSeq(body, DigitsPrefixLen(body) + 1, Len(body))))

SignedFloat(t) ==
  IF t # <<>> /\ t[1] \in {"+", "-"}
    THEN UnsignedFloat(t[1] = "-", Tail(t))
    ELSE UnsignedFloat(FALSE, t)

\* parseFloat: leading white space, an optional sign, digits with an
\* optional fraction; anything after that is ignored; NaN when there is no
\* digit (exponents and "Infinity" do not occur in the texts used here)
parseFloat(chars) == SignedFloat(TrimStart(chars))

\* the closing parenthesis matched by the greedy (.*) after the "(" at i
LastClose(chars, i) ==
  CHOOSE j \in DOMAIN chars :
    /\ j > i /\ chars[j] = ")"
    /\ \A k \in DOMAIN chars : (k > i /\ chars[k] = ")") => k <= j

ReplaceBetween(chars, i, j) ==
  SubSeq(chars, 1, i - 1) \o <<"-">> \o SubSeq(chars, i + 1, j - 1)
    \o SubSeq(chars, j + 1, Len(chars))

ReplaceFrom(chars, i) ==
  IF \E j \in DOMAIN chars : j > i /\ chars[j] = ")"
    THEN ReplaceBetween(chars, i, LastClose(chars, i))
    ELSE chars

\* replace(/\((.*)\)/, '-$1'): the text between the first "(" and the last
\* ")" after it loses the parentheses and gets a minus sign
ReplaceParens(chars) ==
  IF \E i \in DOMAIN chars : chars[i] = "("
    THEN ReplaceFrom(chars,
           CHOOSE i \in DOMAIN chars :
             chars[i] = "(" /\ \A k \in 1..(i - 1) : chars[k] # "(")
    ELSE chars

\* the last two statements of parseNumericString
PercentScaled(percent, num) ==
  IF ~num.ok THEN NaN
  ELSE IF percent THEN [ok |-> TRUE, v |-> RatDivInt(num.v, 100)]
  ELSE num

\* parseNumericString after the trim
NormalizeTrimmed(trimmed) ==
  IF trimmed = <<>> THEN NaN
  ELSE PercentScaled(
         trimmed[Len(trimmed)] = "%",
         parseFloat(ReplaceParens(
           SelectSeq(trimmed,
                     LAMBDA c : c \notin CurrencySymbols \cup {","}
                                          \cup Spaces))))

\* parseNumericString: NaN stands for its null
parseNumericString(value) == NormalizeTrimmed(Trim(value))

(* ---------------- ingestion of one sheet ---------------- *)

(***************************************************************************)
(* A sheet is the array of arrays sheet_to_json returns with header: 1:    *)
(* its first row holds the header names, the other rows hold cells.  A row *)
(* may be shorter than the header row; the missing cells read as           *)
(* undefined.  Sums are exact (the rounding of doubles is not modelled).   *)
(***************************************************************************)

MAX_FILES == 10
MAX_FILE_SIZE_MB == 15
MAX_ROWS_PER_FILE == 50000
SAMPLE_ROWS_FOR_AI == 2000

\* row[colIndex] of a JavaScript array, columns counted from 1
CellAt(row, colIndex) ==
  IF colIndex \in DOMAIN row THEN row[colIndex] ELSE Undefined

\* rows.map(row => row[colIndex]).filter(v => v !== null && v !== undefined
\* && v !== '')
ColumnValues(rows, colIndex) ==
  SelectSeq([r \in DOMAIN rows |-> CellAt(rows[r], colIndex)],
            LAMBDA v : v.t # "undefined" /\ v # Blank)

RECURSIVE RatSum(_)
RatSum(nums) ==
  IF nums = <<>> THEN Zero
  ELSE RatAdd(RatSum(SubSeq(nums, 1, Len(nums) - 1)), nums[Len(nums)])

RatMin(nums) ==
  nums[CHOOSE i \in DOMAIN nums : \A j \in DOMAIN nums : ~RatLess(nums[j], nums[i])]

RatMax(nums) ==
  nums[CHOOSE i \in DOMAIN nums : \A j \in DOMAIN nums : ~RatLess(nums[i], nums[j])]

\* variant that leaves the total undivided
ColumnMetricsUndivided(nums) ==
  [total |-> RatSum(nums),
   average |-> RatSum(nums),
   min |-> RatMin(nums),
   max |-> RatMax(nums),
   trend |-> IF Len(nums) > 1 /\ RatLess(nums[1], nums[Len(nums)])
               THEN "increase"
             ELSE IF Len(nums) > 1 /\ RatLess(nums[Len(nums)], nums[1])
               THEN "decrease"
             ELSE "stable"]

\* total, average, min, max and trend of a non-empty list of numbers
ColumnMetrics(nums) ==
  [total |-> RatSum(nums),
   average |-> RatDivInt(RatSum(nums), Len(nums)),
   min |-> RatMin(nums),
   max |-> RatMax(nums),
   trend |-> IF Len(nums) > 1 /\ RatLess(nums[1], nums[Len(nums)])
               THEN "increase"
             ELSE IF Len(nums) > 1 /\ RatLess(nums[Len(nums)], nums[1])
               THEN "decrease"
             ELSE "stable"]

\* the numeric test of processFiles on one value
IsNumericValue(v) ==
  IF v.t = "number" THEN TRUE
  ELSE IF v.t = "string" THEN parseNumericString(v.s).ok
  ELSE FALSE

NumericValue(v) == IF v.t = "number" THEN v.n ELSE parseNumericString(v.s).v

\* the numeric test of processFiles on the non-empty values of a column
AllNumeric(values) ==
  Len(values) > 0 /\ \A i \in DOMAIN values : IsNumericValue(values[i])

\* for every numeric column of the file, by position, its numericValues
NumericColumnValues(rows, width) ==
  [i \in {c \in 1..width : AllNumeric(ColumnValues(rows, c))} |->
     [k \in DOMAIN ColumnValues(rows, i) |->
        NumericValue(ColumnValues(rows, i)[k])]]

\* the elements of seq at the given positions, in order
RECURSIVE KeepPositions(_, _, _)
KeepPositions(seq, positions, upTo) ==
  IF upTo = 0 THEN <<>>
  ELSE KeepPositions(seq, positions, upTo - 1)
         \o (IF upTo \in positions THEN <<seq[upTo]>> ELSE <<>>)

\* the last of the given positions whose header is h
LastIndex(headers, positions, h) ==
  CHOOSE i \in positions :
    headers[i] = h /\ \A j \in positions : headers[j] = h => j <= i

\* the object built by metrics[header] = ... over the numeric columns in
\* column order: a later column replaces an earlier one of the same name
MetricsObject(headers, numbers) ==
  [h \in {headers[i] : i \in DOMAIN numbers} |->
     ColumnMetrics(numbers[LastIndex(headers, DOMAIN numbers, h)])]

\* the document object
DocumentData(fileName, headers, rows, sampled, numbers) ==
  [fileName |-> fileName,
   parsedData |->
     [headers |-> headers,
      rows |-> rows,
      numericColumns |-> KeepPositions(headers, DOMAIN numbers, Len(headers))],
   \* the header row and the first SAMPLE_ROWS_FOR_AI rows, which
   \* sheet_to_csv renders as text
   stringData |-> sampled,
   metrics |-> MetricsObject(headers, numbers)]

IngestTable(fileName, headers, rows, sampled) ==
  DocumentData(fileName, headers, rows, sampled,
               NumericColumnValues(rows, Len(headers)))

IngestLimited(fileName, limitedJson) ==
  IF limitedJson = <<>>
    THEN IngestTable(fileName, <<>>, <<>>, <<>>)
    ELSE IngestTable(fileName, limitedJson[1], Tail(limitedJson),
                     SubSeq(limitedJson, 1,
                            Min(Len(limitedJson), SAMPLE_ROWS_FOR_AI + 1)))

\* the try block of reader.onload: the document made from a sheet
IngestSheet(fileName, json) ==
  IngestLimited(fileName,
                SubSeq(json, 1, Min(Len(json), MAX_ROWS_PER_FILE + 1)))

(* ---------------- combination of documents ---------------- *)

docColumn == "Document"

\* Array.from(new Set(seq)): the distinct elements in order of first
\* appearance
RECURSIVE Distinct(_)
Distinct(seq) ==
  IF seq = <<>> THEN <<>>
  ELSE IF seq[Len(seq)] \in Range(SubSeq(seq, 1, Len(seq) - 1))
    THEN Distinct(SubSeq(seq, 1, Len(seq) - 1))
  ELSE Append(Distinct(SubSeq(seq, 1, Len(seq) - 1)), seq[Len(seq)])

\* documents.flatMap(d => d.parsedData.headers)
RECURSIVE flatHeaders(_)
flatHeaders(documents) ==
  IF documents = <<>> THEN <<>>
  ELSE documents[1].parsedData.headers \o flatHeaders(Tail(documents))

\* variant that keeps every header as it comes
unionHeadersVerbatim(documents) == flatHeaders(documents)

unionHeaders(documents) == Distinct(flatHeaders(documents))

\* r[srcIdx] ?? ''
CellOrBlank(cell) == IF cell.t = "undefined" THEN Blank ELSE cell

\* one output row: '' everywhere, then the source cell under every union
\* header the document has (through its indexMap, which keeps the last
\* column of a name), then the file name in the last cell
combinedRow(d, r, union) ==
  [ui \in 1..(Len(union) + 1) |->
     IF ui = Len(union) + 1 THEN Str(d.fileName)
     ELSE IF union[ui] \in Range(d.parsedData.headers)
       THEN CellOrBlank(CellAt(r, LastIndex(d.parsedData.headers,
                                            DOMAIN d.parsedData.headers,
                                            union[ui])))
     ELSE Blank]

\* variant that pushes the rows of the later documents first
RECURSIVE combinedRowsReversed(_, _)
combinedRowsReversed(documents, union) ==
  IF documents = <<>> THEN <<>>
  ELSE combinedRowsReversed(Tail(documents), union)
         \o [i \in DOMAIN documents[1].parsedData.rows |->
               combinedRow(documents[1], documents[1].parsedData.rows[i], union)]

\* the rows pushed by the loop over documents and their rows
RECURSIVE combinedRows(_, _)
combinedRows(documents, union) ==
  IF documents = <<>> THEN <<>>
  ELSE [i \in DOMAIN documents[1].parsedData.rows |->
          combinedRow(documents[1], documents[1].parsedData.rows[i], union)]
         \o combinedRows(Tail(documents), union)

\* the numeric test of the combined table on one value
IsCombinedNumericValue(v) ==
  IF v.t = "number" THEN TRUE
  ELSE IF v.t = "string" THEN parseFloat(v.s).ok
  ELSE FALSE

CombinedNumericValue(v) == IF v.t = "string" THEN parseFloat(v.s).v ELSE v.n

\* the numeric test of the combined table on the non-empty values of a
\* column
AllCombinedNumeric(values) ==
  Len(values) > 0
    /\ \A i \in DOMAIN values : IsCombinedNumericValue(values[i])

\* for every column of the combined table that passes the test, by
\* position, its numericValues
CombinedColumnValues(rows, width) ==
  [i \in {c \in 1..width : AllCombinedNumeric(ColumnValues(rows, c))} |->
     [k \in DOMAIN ColumnValues(rows, i) |->
        CombinedNumericValue(ColumnValues(rows, i)[k])]]

\* headers.indexOf(h)
IndexOf(headers, h) ==
  CHOOSE i \in DOMAIN headers :
    headers[i] = h /\ \A j \in DOMAIN headers : headers[j] = h => i <= j

recomputeMetrics(parsed) ==
  MetricsObject(parsed.headers,
                CombinedColumnValues(parsed.rows, Len(parsed.headers)))

\* unionHeaders.filter(...): the union headers whose column, looked up by
\* name in headers, passes the test
combinedNumericColumns(union, headers, rows) ==
  KeepPositions(
    union,
    {ui \in DOMAIN union :
       AllCombinedNumeric(ColumnValues(rows, IndexOf(headers, union[ui])))},
    Len(union))

\* variant that writes the block of the first document only
combinedTextFirstOnly(documents) ==
  IF documents = <<>> THEN <<>>
  ELSE <<[heading |-> <<"### Document: ", documents[1].fileName, "\n">>,
          body |-> documents[1].stringData,
          closing |-> "\n\n"]>>

\* the text of the combined dataset: one block per document
RECURSIVE combinedText(_)
combinedText(documents) ==
  IF documents = <<>> THEN <<>>
  ELSE <<[heading |-> <<"### Document: ", documents[1].fileName, "\n">>,
          body |-> documents[1].stringData,
          closing |-> "\n\n"]>>
         \o combinedText(Tail(documents))

\* the value buildCombined returns
CombinedData(documents, combinedParsedData) ==
  [combinedParsedData |-> combinedParsedData,
   combinedStringData |-> combinedText(documents),
   combinedMetrics |-> recomputeMetrics(combinedParsedData)]

combinedTable(documents, union, headers, rows) ==
  CombinedData(documents,
               [headers |-> headers,
                rows |-> rows,
                numericColumns |-> combinedNumericColumns(union, headers, rows)])

combinedOver(documents, union) ==
  combinedTable(documents, union, Append(union, docColumn),
                combinedRows(documents, union))

buildCombined(documents) ==
  IF documents = <<>>
    THEN [combinedParsedData |->
            [headers |-> <<>>, rows |-> <<>>, numericColumns |-> <<>>],
          combinedStringData |-> <<>>,
          combinedMetrics |-> <<>>]
  ELSE combinedOver(documents, unionHeaders(documents))

(* ---------------- withRetry ---------------- *)

\* error messages of the wrapped operation, each as the set of phrases its
\* lower-cased text contains
OpErrorMessages ==
  { {"overloaded"}, {"503", "service unavailable"}, {"429", "rate limit"},
    {"api key"} }

RetryableSubstrings ==
  {"overloaded", "service unavailable", "rate limit", "timeout",
   "503", "502", "504", "429"}

isRetryable(errorMessage) == errorMessage \cap RetryableSubstrings # {}

\* the messages of the errors withRetry itself throws
CircuitOpenMessage == {"temporarily unavailable", "repeated failures", "try again in"}
TrippedMessage == {"persistent issues", "temporarily disabled"}
ExhaustedMessage == {"overloaded", "unavailable after", "attempts"}

\* variant of the check that compares the elapsed milliseconds with the
\* timeout taken in seconds
CircuitRejectsSeconds(st) ==
  st.circuitBreakerOpen /\ st.timeSinceLastFailure < resetTimeout \div 1000

\* the circuit-breaker check at the top of withRetry: TRUE when the call is
\* rejected
CircuitRejects(st) ==
  st.circuitBreakerOpen /\ st.timeSinceLastFailure < resetTimeout

\* serviceStatus after the check let the call through
StatusAfterCheck(st) ==
  IF st.circuitBreakerOpen
  THEN [st EXCEPT !.circuitBreakerOpen = FALSE, !.consecutiveFailures = 0]
  ELSE st

\* serviceStatus after the operation resolved
StatusAfterSuccess(st) ==
  IF st.consecutiveFailures > 0
  THEN [st EXCEPT !.consecutiveFailures = 0, !.isHealthy = TRUE]
  ELSE st

\* variant that opens the circuit one failure later
StatusAfterFailureLate(st) ==
  LET tracked == [st EXCEPT !.consecutiveFailures = @ + 1,
                            !.timeSinceLastFailure = 0,
                            !.isHealthy = FALSE]
  IN IF tracked.consecutiveFailures > failureThreshold
     THEN [tracked EXCEPT !.circuitBreakerOpen = TRUE]
     ELSE tracked

\* serviceStatus after a retryable failure was tracked
StatusAfterFailure(st) ==
  LET tracked == [st EXCEPT !.consecutiveFailures = @ + 1,
                            !.timeSinceLastFailure = 0,
                            !.isHealthy = FALSE]
  IN IF tracked.consecutiveFailures >= failureThreshold
     THEN [tracked EXCEPT !.circuitBreakerOpen = TRUE]
     ELSE tracked

\* the backoff delay before retry number retryCount + 1, without jitter
BackoffDelay(retryCount) == Min(baseDelay * (2 ^ retryCount), maxDelay)

\* Math.floor(delay + Math.random() * 0.1 * delay) for the draws of
\* Math.random() the model takes (in twentieths)
RandomDraws == {0}
FinalDelays(delay) == {delay + (r * delay) \div 200 : r \in RandomDraws}

\* the call record after withRetry(operation, rc) is entered: either
\* rejected by the open circuit or suspended in `await operation()`
EnterCall(cr, rc, st) ==
  IF CircuitRejects(st)
  THEN [cr EXCEPT !.pc = "failed", !.err = "circuitOpen",
                  !.msg = CircuitOpenMessage, !.retryCount = rc,
                  !.trial = FALSE]
  ELSE [cr EXCEPT !.pc = "running", !.retryCount = rc,
                  !.attempts = @ + 1, !.trial = st.circuitBreakerOpen]

EnterStatus(st) ==
  IF CircuitRejects(st) THEN st ELSE StatusAfterCheck(st)

\* a caller invokes withRetry(operation): the check and the invocation of
\* the operation run synchronously up to the first await
StartCall(c) ==
  /\ Quiet
  /\ c \in DirectCalls
  /\ calls[c].pc \in {"idle", "ok", "failed"}
  /\ calls' = [calls EXCEPT ![c] = EnterCall(IdleCall, 0, serviceStatus)]
  /\ serviceStatus' = EnterStatus(serviceStatus)
  /\ UNCHANGED actionVars
  /\ UNCHANGED clientVars

\* the awaited operation resolves
OpSucceeds(c) ==
  /\ Quiet
  /\ calls[c].pc = "running"
  /\ serviceStatus' = StatusAfterSuccess(serviceStatus)
  /\ calls' = [calls EXCEPT ![c].pc = "ok"]
  /\ UNCHANGED actionVars
  /\ UNCHANGED clientVars

\* variant that tracks the failure before looking at the message
OpFailsPermanentTracked(c) ==
  /\ Quiet
  /\ calls[c].pc = "running"
  /\ \E m \in OpErrorMessages :
       /\ ~isRetryable(m)
       /\ calls' = [calls EXCEPT ![c].pc = "failed", ![c].err = "permanent",
                                 ![c].msg = m]
  /\ serviceStatus' = StatusAfterFailure(serviceStatus)
  /\ UNCHANGED actionVars
  /\ UNCHANGED clientVars

\* the awaited operation rejects with a message that is not retryable
OpFailsPermanent(c) ==
  /\ Quiet
  /\ calls[c].pc = "running"
  /\ \E m \in OpErrorMessages :
       /\ ~isRetryable(m)
       /\ calls' = [calls EXCEPT ![c].pc = "failed", ![c].err = "permanent",
                                 ![c].msg = m]
  /\ UNCHANGED <<serviceStatus, actionVars>>
  /\ UNCHANGED clientVars

\* the call record after a retryable failure was tracked in st2
CallAfterFailure(cr, st2, fd) ==
  IF st2.consecutiveFailures >= failureThreshold
  THEN [cr EXCEPT !.pc = "failed", !.err = "tripped", !.msg = TrippedMessage]
  ELSE IF cr.retryCount < maxRetries
       THEN [cr EXCEPT !.pc = "backoff", !.remaining = fd]
       ELSE [cr EXCEPT !.pc = "failed", !.err = "exhausted",
                       !.msg = ExhaustedMessage]

\* the awaited operation rejects with a retryable message
OpFailsRetryable(c) ==
  /\ Quiet
  /\ calls[c].pc = "running"
  /\ \E m \in OpErrorMessages :
       /\ isRetryable(m)
       /\ \E fd \in FinalDelays(BackoffDelay(calls[c].retryCount)) :
            LET st2 == StatusAfterFailure(serviceStatus)
            IN /\ serviceStatus' = st2
               /\ calls' = [calls EXCEPT
                              ![c] = CallAfterFailure(calls[c], st2, fd)]
  /\ UNCHANGED actionVars
  /\ UNCHANGED clientVars

\* the backoff timer fires: withRetry(operation, retryCount + 1, options)
TimerFires(c) ==
  /\ Quiet
  /\ calls[c].pc = "backoff"
  /\ calls[c].remaining = 0
  /\ calls' = [calls EXCEPT
                 ![c] = EnterCall(calls[c], calls[c].retryCount + 1,
                                  serviceStatus)]
  /\ serviceStatus' = EnterStatus(serviceStatus)
  /\ UNCHANGED actionVars
  /\ UNCHANGED clientVars

(* ---------------- explicit resets ---------------- *)

resetServiceStatus ==
  /\ Quiet
  /\ serviceStatus' = InitialStatus
  /\ UNCHANGED <<calls, actionVars>>
  /\ UNCHANGED clientVars

forceCircuitBreakerReset == resetServiceStatus

(* ---------------- the clock ---------------- *)

Sleeping == {c \in CallIds : calls[c].pc = "backoff"}

\* the instants at which something changes: a timer is due, the reset
\* window of the circuit breaker ends, a cache entry reaches CACHE_TTL
TickSteps ==
  {calls[c].remaining : c \in Sleeping}
  \cup {resetTimeout - serviceStatus.timeSinceLastFailure}
  \cup {CACHE_TTL - cacheTimestamps[i].age : i \in DOMAIN cacheTimestamps}

\* time passes up to the next such instant; a timer fires when it is due,
\* so time does not run past a pending timer
Tick ==
  /\ Quiet
  /\ \E d \in TickSteps :
       /\ d > 0
       /\ \A c \in Sleeping : d <= calls[c].remaining
       /\ serviceStatus' =
            [serviceStatus EXCEPT
               !.timeSinceLastFailure = Min(@ + d, resetTimeout)]
       /\ calls' = [c \in CallIds |->
                      IF c \in Sleeping
                      THEN [calls[c] EXCEPT !.remaining = @ - d]
                      ELSE calls[c]]
       /\ cacheTimestamps' =
            [i \in DOMAIN cacheTimestamps |->
               [cacheTimestamps[i] EXCEPT !.age = Min(@ + d, CACHE_TTL)]]
       /\ acts' = [a \in ActIds |->
                     IF acts[a].pc \in {"idle", "done"} THEN acts[a]
                     ELSE [acts[a] EXCEPT !.age = Min(@ + d, CACHE_TTL)]]
  /\ UNCHANGED analysisCache
  /\ UNCHANGED clientVars

(* ---------------- the analysis cache ---------------- *)

\* md5 of the text, as a tag no text equals
getCacheKey(data) == <<"md5", data>>

\* Map operations on a sequence of entries in insertion order
MapHas(map, k) == \E i \in DOMAIN map : map[i].key = k
MapIndex(map, k) == CHOOSE i \in DOMAIN map : map[i].key = k
MapDelete(map, k) == SelectSeq(map, LAMBDA e : e.key # k)
MapSet(map, entry) ==
  IF MapHas(map, entry.key)
  THEN [map EXCEPT ![MapIndex(map, entry.key)] = entry]
  ELSE Append(map, entry)

\* the entry of cacheTimestamps is present and younger than CACHE_TTL
FreshStamp(stamps, k) ==
  MapHas(stamps, k) /\ stamps[MapIndex(stamps, k)].age < CACHE_TTL

\* variant that also refuses the entry while the circuit breaker is open
getCachedAnalysisGuarded(data, cache, stamps) ==
  LET k == getCacheKey(data)
  IN IF FreshStamp(stamps, k) /\ MapHas(cache, k)
        /\ ~serviceStatus.circuitBreakerOpen
     THEN cache[MapIndex(cache, k)].value
     ELSE Null

\* the value getCachedAnalysis returns
getCachedAnalysis(data, cache, stamps) ==
  LET k == getCacheKey(data)
  IN IF FreshStamp(stamps, k) /\ MapHas(cache, k)
     THEN cache[MapIndex(cache, k)].value
     ELSE Null

\* the two maps after getCachedAnalysis: an expired entry is deleted
CacheAfterGet(data, cache, stamps) ==
  LET k == getCacheKey(data)
  IN IF MapHas(stamps, k) /\ ~FreshStamp(stamps, k)
     THEN <<MapDelete(cache, k), MapDelete(stamps, k)>>
     ELSE <<cache, stamps>>

\* variant that never evicts
setCachedAnalysisUnbounded(data, result, cache, stamps) ==
  LET k == getCacheKey(data)
  IN <<MapSet(cache, [key |-> k, value |-> result]),
       MapSet(stamps, [key |-> k, age |-> 0])>>

\* the two maps after setCachedAnalysis(data, result)
setCachedAnalysis(data, result, cache, stamps) ==
  LET k == getCacheKey(data)
      cache2 == MapSet(cache, [key |-> k, value |-> result])
      stamps2 == MapSet(stamps, [key |-> k, age |-> 0])
  IN IF Len(cache2) > CacheLimit
     THEN LET oldestKey == cache2[1].key
          IN <<MapDelete(cache2, oldestKey), MapDelete(stamps2, oldestKey)>>
     ELSE <<cache2, stamps2>>

(* ---------------- the summary actions ---------------- *)

\* the spreadsheet texts of the requests
Data == {"", "csv"}

ActionKinds == {"optimized", "smart", "streaming"}

\* does the lower-cased message contain the text sub
Includes(msg, sub) ==
  \/ sub \in msg
  \/ sub = "limit" /\ "rate limit" \in msg

\* getEnhancedErrorMessage, by the branch that produces the text
getEnhancedErrorMessage(msg, st) ==
  IF Includes(msg, "api key") \/ Includes(msg, "authentication")
  THEN "apiKey"
  ELSE IF Includes(msg, "overloaded") \/ Includes(msg, "service unavailable")
  THEN (IF st.circuitBreakerOpen THEN "offline" ELSE "highDemand")
  ELSE IF Includes(msg, "quota") \/ Includes(msg, "limit")
  THEN "quota"
  ELSE IF Includes(msg, "rate limit") \/ Includes(msg, "429")
  THEN "rateLimit"
  ELSE IF Includes(msg, "timeout") \/ Includes(msg, "502")
          \/ Includes(msg, "504")
  THEN "timeout"
  ELSE "generic"

\* the record of an action that returns { error, summary: empty }; the
\* legacy getSummaryAction has one fixed error text
ActFailed(ar, msg, st) ==
  [ar EXCEPT !.pc = "done", !.outcome = "error",
             !.error = IF ar.kind = "legacy" THEN "failedSummary"
                       ELSE getEnhancedErrorMessage(msg, st)]

\* the calls table after the given calls of one action entered withRetry one
\* after the other in the same synchronous run, starting from status st
EnterAll(cs, first, st) ==
  [c \in CallIds |->
     IF c = first THEN EnterCall(IdleCall, 0, st)
     ELSE IF c \in cs THEN EnterCall(IdleCall, 0, EnterStatus(st))
     ELSE calls[c]]

\* a request arrives at getSummaryActionOptimized / getSummaryActionSmart /
\* getSummaryActionStreaming and runs to its first suspension
StartAction(a, kind, d, specialized) ==
  /\ Quiet
  /\ acts[a].pc = "idle"
  /\ LET ar == [acts[a] EXCEPT !.kind = kind, !.data = d,
                               !.arrivedOpen = CircuitRejects(serviceStatus)]
         cached == getCachedAnalysis(d, analysisCache, cacheTimestamps)
         maps == CacheAfterGet(d, analysisCache, cacheTimestamps)
     IN IF d = ""
        THEN /\ acts' = [acts EXCEPT
                           ![a] = ActFailed(ar, {"spreadsheet data is empty"},
                                            serviceStatus)]
             /\ UNCHANGED <<serviceStatus, calls, analysisCache,
                            cacheTimestamps>>
        ELSE IF cached # Null
        THEN /\ acts' = [acts EXCEPT
                           ![a] = [ar EXCEPT !.pc = "done",
                                             !.outcome = "cached",
                                             !.summary = cached]]
             /\ UNCHANGED <<serviceStatus, calls, analysisCache,
                            cacheTimestamps>>
        ELSE /\ analysisCache' = maps[1]
             /\ cacheTimestamps' = maps[2]
             /\ serviceStatus' = EnterStatus(serviceStatus)
             /\ IF kind = "smart" /\ specialized
                THEN /\ acts' = [acts EXCEPT ![a] = [ar EXCEPT !.pc = "specialized"]]
                     /\ calls' = EnterAll({}, <<a, "specialized">>, serviceStatus)
                ELSE IF kind = "streaming"
                THEN /\ acts' = [acts EXCEPT
                                   ![a] = [ar EXCEPT !.pc = "streamInsights",
                                                     !.launched = 1]]
                     /\ calls' = EnterAll({}, <<a, "insights">>, serviceStatus)
                ELSE /\ acts' = [acts EXCEPT
                                   ![a] = [ar EXCEPT !.pc = "parallel",
                                                     !.launched = 1]]
                     /\ calls' = EnterAll(ParallelCalls(a), <<a, "insights">>,
                                          serviceStatus)
  /\ UNCHANGED clientVars

\* the specialized analysis of getSummaryActionSmart resolved: the
\* standard parallel analysis follows
SpecializedResolved(a) ==
  /\ acts[a].pc = "specialized"
  /\ Resolved(a)
  /\ acts' = [acts EXCEPT ![a].pc = "parallel", ![a].launched = 1]
  /\ calls' = EnterAll(ParallelCalls(a), <<a, "insights">>, serviceStatus)
  /\ serviceStatus' = EnterStatus(serviceStatus)
  /\ UNCHANGED <<analysisCache, cacheTimestamps>>
  /\ UNCHANGED clientVars

\* the status emergencyReset writes
emergencyReset == InitialStatus

\* the catch of the parallel (or specialized) analysis: summarizeSpreadsheet
\* resets the circuit breaker and starts executeWithFallback with the
\* primary model
summarizeSpreadsheet(a) ==
  /\ acts[a].pc \in {"specialized", "parallel"}
  /\ Rejected(a)
  /\ acts' = [acts EXCEPT ![a].pc = "fallback", ![a].modelIdx = 1,
                          ![a].tried = <<MODEL_CONFIGS[1]>>]
  /\ calls' = [calls EXCEPT
                 ![<<a, "fallback">>] = EnterCall(IdleCall, 0, emergencyReset)]
  /\ serviceStatus' = EnterStatus(emergencyReset)
  /\ UNCHANGED <<analysisCache, cacheTimestamps>>
  /\ UNCHANGED clientVars

\* the analysis resolved: the result is cached (not by the legacy
\* getSummaryAction) and returned
AnalysisResolved(a) ==
  /\ acts[a].pc \in {"parallel", "fallback", "streamRest"}
  /\ Resolved(a)
  /\ LET result == [data |-> acts[a].data, by |-> a]
         maps == IF acts[a].kind = "legacy"
                 THEN <<analysisCache, cacheTimestamps>>
                 ELSE setCachedAnalysis(acts[a].data, result, analysisCache,
                                        cacheTimestamps)
     IN /\ acts' = [acts EXCEPT ![a].pc = "done", ![a].outcome = "fresh",
                                ![a].summary = result]
        /\ analysisCache' = maps[1]
        /\ cacheTimestamps' = maps[2]
  /\ UNCHANGED <<serviceStatus, calls>>
  /\ UNCHANGED clientVars

\* variant that gives up at the first error that is not an overload
executeWithFallbackNextStrict(a) ==
  /\ acts[a].pc = "fallback"
  /\ Rejected(a)
  /\ LET i == acts[a].modelIdx
         msg == calls[<<a, "fallback">>].msg
         overloaded == Includes(msg, "overloaded")
                         \/ Includes(msg, "service unavailable")
     IN IF ~overloaded \/ i = Len(MODEL_CONFIGS)
        THEN /\ acts' = [acts EXCEPT ![a] = ActFailed(acts[a], msg, serviceStatus)]
             /\ UNCHANGED <<serviceStatus, calls>>
        ELSE /\ acts' = [acts EXCEPT ![a].modelIdx = i + 1,
                                     ![a].tried = Append(@, MODEL_CONFIGS[i + 1])]
             /\ calls' = [calls EXCEPT
                            ![<<a, "fallback">>] =
                               EnterCall(IdleCall, 0, serviceStatus)]
             /\ serviceStatus' = EnterStatus(serviceStatus)
  /\ UNCHANGED <<analysisCache, cacheTimestamps>>
  /\ UNCHANGED clientVars

\* the catch inside the loop of executeWithFallback: after an overload error
\* the loop continues, after any other error it continues unless this was
\* the last model; when the loop is over the last error is thrown
executeWithFallbackNext(a) ==
  /\ acts[a].pc = "fallback"
  /\ Rejected(a)
  /\ LET i == acts[a].modelIdx
         msg == calls[<<a, "fallback">>].msg
         overloaded == Includes(msg, "overloaded")
                         \/ Includes(msg, "service unavailable")
         throws == IF overloaded THEN i + 1 > Len(MODEL_CONFIGS)
                   ELSE i = Len(MODEL_CONFIGS)
     IN IF throws
        THEN /\ acts' = [acts EXCEPT ![a] = ActFailed(acts[a], msg, serviceStatus)]
             /\ UNCHANGED <<serviceStatus, calls>>
        ELSE /\ acts' = [acts EXCEPT ![a].modelIdx = i + 1,
                                     ![a].tried = Append(@, MODEL_CONFIGS[i + 1])]
             /\ calls' = [calls EXCEPT
                            ![<<a, "fallback">>] =
                               EnterCall(IdleCall, 0, serviceStatus)]
             /\ serviceStatus' = EnterStatus(serviceStatus)
  /\ UNCHANGED <<analysisCache, cacheTimestamps>>
  /\ UNCHANGED clientVars

\* a request arrives at the legacy getSummaryAction, which calls
\* summarizeSpreadsheet directly
getSummaryAction(a, d) ==
  /\ Quiet
  /\ acts[a].pc = "idle"
  /\ LET ar == [acts[a] EXCEPT !.kind = "legacy", !.data = d,
                               !.arrivedOpen = CircuitRejects(serviceStatus)]
     IN IF d = ""
        THEN /\ acts' = [acts EXCEPT
                           ![a] = ActFailed(ar, {"spreadsheet data is empty"},
                                            serviceStatus)]
             /\ UNCHANGED <<serviceStatus, calls>>
        ELSE /\ acts' = [acts EXCEPT
                           ![a] = [ar EXCEPT !.pc = "fallback", !.modelIdx = 1,
                                             !.launched = 1,
                                             !.tried = <<MODEL_CONFIGS[1]>>]]
             /\ calls' = [calls EXCEPT
                            ![<<a, "fallback">>] =
                               EnterCall(IdleCall, 0, emergencyReset)]
             /\ serviceStatus' = EnterStatus(emergencyReset)
  /\ UNCHANGED <<analysisCache, cacheTimestamps>>
  /\ UNCHANGED clientVars

\* streamingSpreadsheetAnalysis: insights, then columns, then rows and
\* quality together
StreamStageResolved(a) ==
  /\ acts[a].pc \in {"streamInsights", "streamColumns"}
  /\ Resolved(a)
  /\ IF acts[a].pc = "streamInsights"
     THEN /\ acts' = [acts EXCEPT ![a].pc = "streamColumns"]
          /\ calls' = EnterAll({}, <<a, "columns">>, serviceStatus)
     ELSE /\ acts' = [acts EXCEPT ![a].pc = "streamRest"]
          /\ calls' = EnterAll({<<a, "quality">>}, <<a, "rows">>, serviceStatus)
  /\ serviceStatus' = EnterStatus(serviceStatus)
  /\ UNCHANGED <<analysisCache, cacheTimestamps>>
  /\ UNCHANGED clientVars

\* a stage of the streaming analysis rejected: the action returns the error
StreamRejected(a) ==
  /\ acts[a].pc \in {"streamInsights", "streamColumns", "streamRest"}
  /\ Rejected(a)
  /\ acts' = [acts EXCEPT
                ![a] = ActFailed(acts[a], calls[RejectingCall(a)].msg,
                                 serviceStatus)]
  /\ UNCHANGED <<serviceStatus, calls, analysisCache, cacheTimestamps>>
  /\ UNCHANGED clientVars

\* a caller that invokes withRetry once
FirstCall(c) == calls[c].pc = "idle" /\ StartCall(c)

(* ---------------- the file uploader and the page ---------------- *)

allowed ==
  {"text/csv",
   "application/vnd.openxmlformats-officedocument.spreadsheetml.sheet",
   "application/vnd.ms-excel"}

\* first?.x || default: the document the single-document fields come from
FirstOrEmpty(docs) ==
  IF docs = <<>>
    THEN [fileName |-> <<>>,
          parsedData |->
            [headers |-> <<>>, rows |-> <<>>, numericColumns |-> <<>>],
          stringData |-> <<>>,
          metrics |-> <<>>]
    ELSE docs[1]

ProcessedData(first, docs, errors, combined) ==
  [parsedData |-> first.parsedData,
   stringData |-> first.stringData,
   metrics |-> first.metrics,
   errors |-> errors,
   fileName |-> first.fileName,
   documents |-> docs,
   combinedParsedData |-> combined.combinedParsedData,
   combinedStringData |-> combined.combinedStringData,
   combinedMetrics |-> combined.combinedMetrics,
   fileNames |-> [i \in DOMAIN docs |-> docs[i].fileName]]

\* the argument of onProcess
Payload(docs, errors) ==
  ProcessedData(FirstOrEmpty(docs), docs, errors, buildCombined(docs))

\* handleFileProcess up to its await
handleFileProcess(pg, payload) ==
  [pg EXCEPT !.isLoading = TRUE,
             !.error = "null",
             !.analysisResult = NoResult,
             !.toast = IF Len(payload.errors) > 0
                         THEN "Error processing file" ELSE @,
             !.awaiting = <<payload>>]

\* handleProgress
handleProgress(pg) == [pg EXCEPT !.isLoading = TRUE]

\* the positions of seq among the given ones, in order
PositionsWhere(seq, positions) ==
  KeepPositions([i \in DOMAIN seq |-> i], positions, Len(seq))

\* the errors pushed for the files over the size limit
SizeErrors(valid, rejected) ==
  [k \in DOMAIN rejected |->
     [fileName |-> valid[rejected[k]].name,
      message |-> "File exceeds 15MB limit"]]

\* onProcess(payload): the page handler runs up to its await
Deliver(up, payload) ==
  /\ upload' = [up EXCEPT !.delivered = Append(@, payload)]
  /\ page' = handleFileProcess(handleProgress(page), payload)

\* the forEach of processFiles over the files of an allowed type
StartReads(files, valid, errors, clipAlert) ==
  IF valid = <<>>
    THEN /\ upload' =
              [IdleUpload EXCEPT
                 !.files = files,
                 !.alerts = Append(clipAlert,
                   "Please upload a valid CSV, XLSX, or XLS file.")]
         /\ page' = handleProgress(page)
  ELSE IF Len(errors) = Len(valid)
    THEN Deliver([IdleUpload EXCEPT !.files = files, !.valid = valid,
                                    !.errors = errors, !.alerts = clipAlert],
                 Payload(<<>>, errors))
  ELSE /\ upload' =
            [IdleUpload EXCEPT
               !.files = files, !.valid = valid, !.errors = errors,
               !.remaining = Len(valid) - Len(errors),
               !.pending = {i \in DOMAIN valid :
                              valid[i].size <= MAX_FILE_SIZE_MB * 1024 * 1024},
               !.alerts = clipAlert]
       /\ page' = handleProgress(page)

Validate(files, valid) ==
  StartReads(files, valid,
             SizeErrors(valid,
               PositionsWhere(valid,
                 {i \in DOMAIN valid :
                    valid[i].size > MAX_FILE_SIZE_MB * 1024 * 1024})),
             IF Len(files) > MAX_FILES
               THEN <<"Only the first 10 will be processed.">>
               ELSE <<>>)

\* processFiles up to the end of its forEach.  The model follows one batch
\* from the first render of the page.
processFiles(files) ==
  /\ Quiet
  /\ upload = IdleUpload
  /\ Validate(files,
              SelectSeq(SubSeq(files, 1, Min(Len(files), MAX_FILES)),
                        LAMBDA f : f.type \in allowed))
  /\ UNCHANGED <<serviceStatus, calls, actionVars>>

\* variant that signals completion after every file
finishReadAlways(up) ==
  Deliver(up, Payload(up.docs, up.errors))

\* the finally of reader.onload, after the try and the catch have left
\* their document or error and remaining has been decremented in up
finishRead(up) ==
  IF up.remaining = 0
    THEN Deliver(up, Payload(up.docs, up.errors))
    ELSE /\ upload' = up
         /\ page' = handleProgress(page)

\* reader.onload of the file at position i of valid: the try, the catch
\* and the finally
onload(i) ==
  /\ Quiet
  /\ i \in upload.pending
  /\ upload.valid[i].content.kind # "unreadable"
  /\ finishRead(
       IF upload.valid[i].content.kind = "sheet"
         THEN [upload EXCEPT
                 !.docs = Append(@, IngestSheet(upload.valid[i].name,
                                                upload.valid[i].content.json)),
                 !.remaining = @ - 1,
                 !.pending = @ \ {i}]
         ELSE [upload EXCEPT
                 !.errors = Append(@, [fileName |-> upload.valid[i].name,
                                       message |-> upload.valid[i].content.message]),
                 !.remaining = @ - 1,
                 !.pending = @ \ {i}])
  /\ UNCHANGED <<serviceStatus, calls, actionVars>>

\* the read of the file at position i of valid ends in an error event:
\* the reader has no onerror handler, so nothing runs
readerError(i) ==
  /\ Quiet
  /\ i \in upload.pending
  /\ upload.valid[i].content.kind = "unreadable"
  /\ upload' = [upload EXCEPT !.pending = @ \ {i}]
  /\ UNCHANGED <<page, serviceStatus, calls, actionVars>>

\* what the awaited summary action returns to the page
AnalysisOutcomes == {"summary", "error"}

\* handleFileProcess after its await: the result is stored, or the error
\* is thrown into the catch; then the finally
handleFileProcessResumes(outcome) ==
  /\ Quiet
  /\ page.awaiting # <<>>
  /\ LET p == page.awaiting[1]
         multi == Len(p.documents) > 1
         single ==
           [kind |-> "single", fileName |-> p.fileName,
            parsedData |-> p.parsedData, stringData |-> p.stringData,
            metrics |-> p.metrics, summary |-> "summary",
            chatHistory |-> <<[sender |-> "ai", text |-> "Hello!"]>>]
         several ==
           [kind |-> "multi",
            filesLabel |->
              [count |-> Len(p.fileNames),
               names |-> SubSeq(p.fileNames, 1, Min(2, Len(p.fileNames)))],
            parsedData |-> p.parsedData, stringData |-> p.stringData,
            metrics |-> p.metrics, documents |-> p.documents,
            combinedParsedData |-> p.combinedParsedData,
            combinedStringData |-> p.combinedStringData,
            combinedMetrics |-> p.combinedMetrics,
            summary |-> "combinedSummary",
            chatHistory |-> <<[sender |-> "ai", text |-> "Analyzed"]>>]
     IN page' =
          IF outcome = "summary"
            THEN [page EXCEPT !.analysisResult =
                                 IF multi THEN several ELSE single,
                              !.isLoading = FALSE,
                              !.awaiting = <<>>]
            ELSE [page EXCEPT !.error = "analysisError",
                              !.toast = "Analysis Failed",
                              !.isLoading = FALSE,
                              !.awaiting = <<>>]
  /\ UNCHANGED <<upload, serviceStatus, calls, actionVars>>

\* the questions of the user and the answers of the chat action
Questions == {"q1", "q2"}
Answers == ("q1" :> "a1") @@ ("q2" :> "a2")

\* the chat messages the page may hold at most when a question is asked,
\* and the questions that may wait for their response at the same time
MaxMessages == 4
MaxAsking == 2

\* handleNewQuestion(question) up to its await: the question is appended to
\* the history of the analysisResult of the current render, which the call
\* keeps (with newHistory) for the code after the await
handleNewQuestion(question) ==
  /\ Quiet
  /\ page.analysisResult # NoResult
  /\ Len(page.analysisResult.chatHistory) < MaxMessages
  /\ Len(page.asking) < MaxAsking
  /\ LET newHistory == Append(page.analysisResult.chatHistory,
                              [sender |-> "user", text |-> question])
     IN page' = [page EXCEPT
                   !.analysisResult.chatHistory = newHistory,
                   !.asking = Append(@, [question |-> question,
                                         analysisResult |-> page.analysisResult,
                                         newHistory |-> newHistory])]
  /\ UNCHANGED <<upload, serviceStatus, calls, actionVars>>

\* what getChatResponseAction returns
ChatOutcomes == {"answer", "error"}

\* handleNewQuestion after its await, for the k-th waiting call
handleNewQuestionResumes(k, outcome) ==
  /\ Quiet
  /\ k \in DOMAIN page.asking
  /\ LET call == page.asking[k]
         reply ==
           [sender |-> "ai",
            text |-> IF outcome = "error"
                       THEN "Sorry, I encountered an error and could not provide a response."
                       ELSE Answers[call.question]]
     IN page' = [page EXCEPT
                   !.analysisResult =
                      [call.analysisResult EXCEPT
                         !.chatHistory = Append(call.newHistory, reply)],
                   !.toast = IF outcome = "error"
                               THEN "Error getting answer" ELSE @,
                   !.asking = SubSeq(@, 1, k - 1) \o SubSeq(@, k + 1, Len(@))]
  /\ UNCHANGED <<upload, serviceStatus, calls, actionVars>>

(* ---------------- specification of the wrapper ---------------- *)

\* the browser side before any file is chosen
ClientInit ==
  /\ upload = IdleUpload
  /\ page = InitialPage

Init ==
  /\ ClientInit
  /\ serviceStatus = InitialStatus
  /\ calls = [c \in CallIds |-> IdleCall]
  /\ acts = [a \in ActIds |-> IdleAct]
  /\ analysisCache = <<>>
  /\ cacheTimestamps = <<>>

NextRetry ==
  \/ \E c \in DirectCalls : StartCall(c)
  \/ \E c \in CallIds : OpSucceeds(c)
  \/ \E c \in CallIds : OpFailsPermanent(c)
  \/ \E c \in CallIds : OpFailsRetryable(c)
  \/ \E c \in CallIds : TimerFires(c)
  \/ resetServiceStatus
  \/ Tick

SpecRetry == Init /\ [][NextRetry]_vars

(* ---------------- specification of the summary actions ---------------- *)

(***************************************************************************)
(* The workload of Spec: two requests to the cached summary actions and    *)
(* one call of a flow that uses withRetry directly.  The flow's call and   *)
(* the requests do not overlap; the AI service is down for the flow's call *)
(* (every attempt fails with a retryable error), answers the analyses of   *)
(* the summary actions, and may refuse the models of the fallback chain    *)
(* with a non-retryable error.                                             *)
(***************************************************************************)

\* the call of the flow that uses withRetry directly
FlowCall == <<0, "direct1">>

\* the withRetry calls of summarizeSpreadsheet
FallbackCalls == {<<a, "fallback">> : a \in ActIds}

InFlight(c) == calls[c].pc \in {"running", "backoff"}

\* a request arrives while the flow's call is not in progress
Request(a, kind, d, specialized) ==
  /\ ~InFlight(FlowCall)
  /\ StartAction(a, kind, d, specialized)

\* the flow calls withRetry while no request is in progress
FlowCalls ==
  /\ \A a \in ActIds : acts[a].pc \in {"idle", "done"}
  /\ FirstCall(FlowCall)

Next ==
  \/ \E a \in ActIds, k \in ActionKinds, d \in Data, sp \in BOOLEAN :
        Request(a, k, d, sp)
  \/ \E a \in ActIds : SpecializedResolved(a)
  \/ \E a \in ActIds : summarizeSpreadsheet(a)
  \/ \E a \in ActIds : AnalysisResolved(a)
  \/ \E a \in ActIds : executeWithFallbackNext(a)
  \/ \E a \in ActIds : StreamStageResolved(a)
  \/ \E a \in ActIds : StreamRejected(a)
  \/ FlowCalls
  \/ \E c \in CallIds \ {FlowCall} : OpSucceeds(c)
  \/ \E c \in FallbackCalls : OpFailsPermanent(c)
  \/ OpFailsRetryable(FlowCall)
  \/ \E c \in CallIds : TimerFires(c)
  \/ Tick

Spec == Init /\ [][Next]_vars

(* ---------------- specification of the fallback chain ---------------- *)

\* the request of SpecFallback
LegacyActs == {1}

\* one request to the legacy getSummaryAction: summarizeSpreadsheet runs the
\* chain of models, each through withRetry, against a service that may
\* answer, refuse or be overloaded
NextFallback ==
  \/ \E a \in LegacyActs, d \in Data : getSummaryAction(a, d)
  \/ \E a \in LegacyActs : AnalysisResolved(a)
  \/ \E a \in LegacyActs : executeWithFallbackNext(a)
  \/ \E c \in FallbackCalls : OpSucceeds(c)
  \/ \E c \in FallbackCalls : OpFailsPermanent(c)
  \/ \E c \in FallbackCalls : OpFailsRetryable(c)
  \/ \E c \in FallbackCalls : TimerFires(c)
  \/ Tick

SpecFallback == Init /\ [][NextFallback]_vars

(* ---------------- specification of the analysis cache ---------------- *)

(***************************************************************************)
(* The cache under a long run of requests.  getCachedAnalysis and          *)
(* setCachedAnalysis are synchronous, so whatever the requests do between  *)
(* them, the two maps see a sequence of whole calls of the two functions.  *)
(* Texts are named by the order in which they first arrive.  The workload  *)
(* of SpecCache: the first CacheLimit - 1 texts arrive in a burst (no time *)
(* passes between them and none is asked for again); from then on time     *)
(* passes, new texts keep arriving and the ProbeTexts are asked for again. *)
(***************************************************************************)

\* the number of different texts: two more than the cache can hold
MaxTexts == 102

Text(i) == ToString(i)
Texts == {Text(i) : i \in 1..MaxTexts}

\* the first two texts and the first text beyond the size limit
ProbeTexts == {Text(1), Text(2), Text(CacheLimit + 1)}

\* text number i is the one that arrives for the first time after those in
\* the cache
ArrivesNext(i, cache) ==
  IF i = 1 THEN cache = <<>>
  ELSE /\ MapHas(cache, getCacheKey(Text(i - 1)))
       /\ \A j \in i..MaxTexts : ~MapHas(cache, getCacheKey(Text(j)))

\* a call of getCachedAnalysis(d)
CacheRead(d) ==
  /\ LET maps == CacheAfterGet(d, analysisCache, cacheTimestamps)
     IN /\ analysisCache' = maps[1]
        /\ cacheTimestamps' = maps[2]
  /\ UNCHANGED <<serviceStatus, calls, acts>>
  /\ UNCHANGED clientVars

\* a call of setCachedAnalysis(d, result)
CacheWrite(d) ==
  /\ LET maps == setCachedAnalysis(d, [data |-> d, by |-> 0], analysisCache,
                                   cacheTimestamps)
     IN /\ analysisCache' = maps[1]
        /\ cacheTimestamps' = maps[2]
  /\ UNCHANGED <<serviceStatus, calls, acts>>
  /\ UNCHANGED clientVars

\* the burst that fills the cache is over
Warm == Len(analysisCache) >= CacheLimit - 1

\* the analysis of a text that arrived for the first time is stored
FirstArrival(i) ==
  /\ ArrivesNext(i, analysisCache)
  /\ CacheWrite(Text(i))

\* a text is asked for again: the cache is read
ProbeRead(d) ==
  /\ Warm
  /\ CacheRead(d)

\* the analysis of a text that was asked for again is stored
ProbeWrite(d) ==
  /\ Warm
  /\ CacheWrite(d)

TickCache ==
  /\ Warm
  /\ Tick

NextCache ==
  \/ \E i \in 1..MaxTexts : FirstArrival(i)
  \/ \E d \in ProbeTexts : ProbeRead(d)
  \/ \E d \in ProbeTexts : ProbeWrite(d)
  \/ TickCache

SpecCache == Init /\ [][NextCache]_vars

(* ---------------- specification of the uploader ---------------- *)

(***************************************************************************)
(* The batches the user drops.  Fault batches mix, at every position, a    *)
(* readable sheet, a file XLSX.read throws on, a file whose read ends in   *)
(* an error event, a file over the size limit and a file of another type;  *)
(* one long batch exceeds MAX_FILES.  Sheet batches hold one to three      *)
(* readable files whose sheets range over header rows (one with a repeated *)
(* name, one with a column called Document) and rows of numbers, currency, *)
(* percent and parenthesised texts, digits followed by letters, blanks and *)
(* missing cells.                                                          *)
(***************************************************************************)

MaxBatch == 3
MaxRows == 2

FileNames ==
  <<<<"a">>, <<"b">>, <<"c">>, <<"d">>, <<"e">>, <<"f">>, <<"g">>, <<"h">>,
    <<"i">>, <<"j">>, <<"k">>, <<"l">>>>

FileKinds == {"sheet", "corrupt", "unreadable", "oversize", "wrongtype"}

SmallSheet ==
  <<<<"Region", "Sales">>,
    <<Str(<<"N">>), Num(Rat(100, 1))>>,
    <<Str(<<"S">>), Num(Rat(150, 1))>>>>

SheetFile(name, json) ==
  [name |-> name, type |-> "text/csv", size |-> 1024,
   content |-> [kind |-> "sheet", json |-> json, message |-> ""]]

FileOfKind(kind, i) ==
  [name |-> FileNames[i],
   type |-> IF kind = "wrongtype" THEN "application/pdf" ELSE "text/csv",
   size |-> IF kind = "oversize" THEN MAX_FILE_SIZE_MB * 1024 * 1024 + 1
            ELSE MAX_FILE_SIZE_MB * 1024 * 1024,
   content |->
     [kind |-> IF kind \in {"corrupt", "unreadable"} THEN kind ELSE "sheet",
      json |-> SmallSheet,
      message |-> IF kind = "corrupt" THEN "Failed to process file" ELSE ""]]

FaultBatches ==
  UNION {{[i \in 1..n |-> FileOfKind(kinds[i], i)] : kinds \in [1..n -> FileKinds]}
           : n \in 1..MaxBatch}

LongBatch == [i \in 1..(MAX_FILES + 1) |-> FileOfKind("oversize", i)]

HeaderRows ==
  {<<"Region", "Sales">>, <<"Sales", "Sales">>, <<"Region", "Document">>}

Rows ==
  {<<Str(<<"N">>), Num(Rat(100, 1))>>,
   <<Str(<<"S">>), Num(Rat(150, 1))>>,
   <<Num(Rat(7, 1)), Str(<<"$", "1", ",", "2", "0", "0">>)>>,
   <<Str(<<"2">>), Str(<<"5", "0", "%">>)>>,
   <<Str(<<"(", "4", "5", ")">>), Str(<<"1", "2", "a">>)>>,
   <<Blank, Str(<<"x">>)>>,
   <<Str(<<"N">>)>>}

Sheets ==
  {<<>>} \cup
  UNION {{<<h>> \o rows : h \in HeaderRows, rows \in [1..n -> Rows]}
           : n \in 0..MaxRows}

\* a name that starts with a letter and one that starts with a year
SheetNames == {<<"q", "1">>, <<"2", "0", "2", "4", "_", "q", "1">>}

PairSheets ==
  {<<<<"Region", "Sales">>, <<Str(<<"N">>), Num(Rat(100, 1))>>>>,
   <<<<"Region", "Cost">>, <<Str(<<"S">>), Str(<<"5", "0", "%">>)>>>>,
   <<<<"Cost", "Region">>, <<Num(Rat(3, 1))>>, <<Blank, Str(<<"N">>)>>>>,
   <<<<"Sales", "Sales">>, <<Str(<<"x">>), Num(Rat(2, 1))>>>>}

SheetBatches ==
  {<<SheetFile(name, json)>> : name \in SheetNames, json \in Sheets}
    \cup {<<SheetFile(<<"q", "1">>, first),
             SheetFile(<<"2", "0", "2", "4", "_", "q", "1">>, second)>> :
             first \in PairSheets, second \in PairSheets}
    \cup {<<SheetFile(<<"q", "1">>, first),
             SheetFile(<<"2", "0", "2", "4", "_", "q", "1">>, second),
             SheetFile(<<"q", "3">>, third)>> :
             first \in PairSheets, second \in PairSheets, third \in PairSheets}

Batches == FaultBatches \cup {LongBatch} \cup SheetBatches

\* handleDrop: the dropped files, if any, go to processFiles
handleDrop ==
  /\ upload = IdleUpload
  /\ \E files \in Batches : processFiles(files)

NextUpload ==
  \/ handleDrop
  \/ \E i \in 1..MAX_FILES : onload(i)
  \/ \E i \in 1..MAX_FILES : readerError(i)
  \/ \E outcome \in AnalysisOutcomes : handleFileProcessResumes(outcome)

SpecUpload == Init /\ [][NextUpload]_vars

\* a sheet with a header row and no data rows
EmptySheet == <<<<"Region", "Sales">>>>

\* batches of up to MaxBatch files of every kind whose sheets are empty
EmptySheetBatches ==
  UNION {{[i \in 1..n |->
             [FileOfKind(kinds[i], i) EXCEPT !.content.json = EmptySheet]] :
            kinds \in [1..n -> FileKinds]}
           : n \in 1..MaxBatch}

\* handleDrop with a batch of EmptySheetBatches
handleDropEmptySheets ==
  /\ upload = IdleUpload
  /\ \E files \in EmptySheetBatches : processFiles(files)

NextUploadLive ==
  \/ handleDropEmptySheets
  \/ \E i \in 1..MAX_FILES : onload(i)
  \/ \E i \in 1..MAX_FILES : readerError(i)
  \/ \E outcome \in AnalysisOutcomes : handleFileProcessResumes(outcome)

\* the uploader under the browser's scheduling: a read that was started
\* ends in its load or its error event, and an awaited summary action
\* returns.  Whether a batch completes does not depend on the rows of its
\* sheets, so the sheets of this specification have none.
SpecUploadLive ==
  /\ Init
  /\ [][NextUploadLive]_vars
  /\ WF_vars(\E i \in 1..MAX_FILES : onload(i) \/ readerError(i))
  /\ WF_vars(\E outcome \in AnalysisOutcomes : handleFileProcessResumes(outcome))

(* ---------------- specification of the normalizer ---------------- *)

(***************************************************************************)
(* parseNumericString is applied by reader.onload to every text cell.  The *)
(* sheets of SpecNormalize have one column and one row that holds a text,  *)
(* so the column is numeric exactly when parseNumericString returns a      *)
(* number for the text, and the column's total is that number.             *)
(***************************************************************************)

\* the longest text made of the characters of CellAlphabet
MaxChars == 3

CellAlphabet == {"1", "5", "a", "%", "(", ")", "-", "."}

\* the examples of the three supported forms
CurrencyExample == <<"$", "1", ",", "2", "3", "4", ".", "5", "0">>
PercentExample == <<"1", "2", "%">>
ParensExample == <<"(", "4", "5", ")">>

CellTexts ==
  UNION {[1..n -> CellAlphabet] : n \in 1..MaxChars}
    \cup {CurrencyExample, PercentExample, ParensExample,
          <<"1", "2", "a", "b", "c">>}

CellSheet(text) == <<<<"Value">>, <<Str(text)>>>>

\* handleFile: one file chosen in the file input goes to processFiles
handleFileOf(texts) ==
  /\ upload = IdleUpload
  /\ \E text \in texts :
       processFiles(<<SheetFile(<<"c", "e", "l", "l", "s">>, CellSheet(text))>>)

handleFile == handleFileOf(CellTexts)

NextNormalize ==
  \/ handleFile
  \/ onload(1)
  \/ \E outcome \in AnalysisOutcomes : handleFileProcessResumes(outcome)

SpecNormalize == Init /\ [][NextNormalize]_vars

(* ---------------- specification of the chat ---------------- *)

\* one file is analysed, then the user asks questions about it
NextChat ==
  \/ handleFileOf({PercentExample, ParensExample})
  \/ onload(1)
  \/ \E outcome \in AnalysisOutcomes : handleFileProcessResumes(outcome)
  \/ \E question \in Questions : handleNewQuestion(question)
  \/ \E k \in 1..MaxAsking, outcome \in ChatOutcomes :
        handleNewQuestionResumes(k, outcome)

SpecChat == Init /\ [][NextChat]_vars

(* ---------------- properties of the wrapper ---------------- *)

\* the step enters withRetry for call c: a new top-level call or the
\* recursive call made when the backoff timer fires
Entered(c) ==
  \/ calls[c].pc \in {"idle", "ok", "failed"} /\ calls'[c] # calls[c]
  \/ calls[c].pc = "backoff" /\ calls'[c].pc # "backoff"

\* the step handles a retryable rejection of call c's operation
FailedRetryably(c) ==
  /\ calls[c].pc = "running"
  /\ \/ calls'[c].pc = "backoff"
     \/ calls'[c].pc = "failed" /\ calls'[c].err \in {"tripped", "exhausted"}

\* C1: while the circuit is open and less than resetTimeout has passed since
\* the last failure, every withRetry call (a new one or a retry) fails at
\* once with the circuit-open error: the operation is not invoked, no retry
\* is scheduled and the service status is left as it was; and the failure
\* that brings consecutiveFailures to the threshold leaves the circuit open
\* with the window running, so the next call is rejected this way.
C1_OpenCircuitRejects ==
  [][ /\ \A c \in CallIds :
           ( /\ Entered(c)
             /\ serviceStatus.circuitBreakerOpen
             /\ serviceStatus.timeSinceLastFailure < resetTimeout )
           => /\ calls'[c].pc = "failed"
              /\ calls'[c].err = "circuitOpen"
              /\ calls'[c].attempts =
                   (IF calls[c].pc = "backoff" THEN calls[c].attempts ELSE 0)
              /\ serviceStatus' = serviceStatus
      /\ ( /\ serviceStatus.consecutiveFailures < failureThreshold
           /\ serviceStatus'.consecutiveFailures >= failureThreshold )
         => /\ serviceStatus'.circuitBreakerOpen
            /\ serviceStatus'.timeSinceLastFailure < resetTimeout
    ]_vars

\* C1 witness: one call tripped the breaker with its fifth failure and
\* another call was rejected without invoking its operation
C1_Witness ==
  \E c, d \in CallIds :
     /\ calls[d].pc = "failed" /\ calls[d].err = "tripped"
     /\ calls[d].attempts = 5
     /\ calls[c].pc = "failed" /\ calls[c].err = "circuitOpen"
     /\ calls[c].attempts = 0
     /\ serviceStatus.circuitBreakerOpen
     /\ serviceStatus.consecutiveFailures = 5

\* C2 (as claimed): with the circuit open and resetTimeout elapsed the next
\* withRetry call invokes its operation, and when that trial call succeeds
\* consecutiveFailures is 0 and the circuit is closed.
C2_TrialSuccessCloses ==
  [][ \A c \in CallIds :
        /\ ( /\ Entered(c)
             /\ serviceStatus.circuitBreakerOpen
             /\ serviceStatus.timeSinceLastFailure >= resetTimeout )
           => /\ calls'[c].pc = "running"
              /\ calls'[c].attempts =
                   (IF calls[c].pc = "backoff" THEN calls[c].attempts ELSE 0) + 1
        /\ ( calls[c].pc = "running" /\ calls[c].trial /\ calls'[c].pc = "ok" )
           => /\ serviceStatus'.consecutiveFailures = 0
              /\ ~serviceStatus'.circuitBreakerOpen
    ]_vars

\* C3 (as claimed): when the trial call fails with a retryable error the
\* failure time is updated and the circuit stays effectively open, i.e. a
\* call made within resetTimeout of that failure would be rejected.
C3_TrialFailureKeepsOpen ==
  [][ \A c \in CallIds :
        ( FailedRetryably(c) /\ calls[c].trial )
        => /\ serviceStatus'.timeSinceLastFailure = 0
           /\ serviceStatus'.circuitBreakerOpen
    ]_vars

\* C4 (as claimed): after any withRetry call returns successfully
\* consecutiveFailures is 0 and isHealthy is true.
C4_SuccessRestoresHealth ==
  [][ \A c \in CallIds :
        ( calls[c].pc = "running" /\ calls'[c].pc = "ok" )
        => /\ serviceStatus'.consecutiveFailures = 0
           /\ serviceStatus'.isHealthy
    ]_vars

\* C5 (as claimed): a call never invokes its operation more than 5 times,
\* and a call whose initial attempt and 4 retries all failed with a
\* retryable error fails with the retries-exhausted error.
C5_ExhaustedAfterFiveFailures ==
  \A c \in CallIds :
     /\ calls[c].attempts <= 5
     /\ ( /\ calls[c].pc = "failed"
          /\ calls[c].attempts = 5
          /\ calls[c].err # "permanent" )
        => calls[c].err = "exhausted"

\* C6: when the operation throws an error that is not retryable, withRetry
\* rethrows it in the same step: the attempt that failed was the only
\* invocation made by that withRetry invocation, no backoff is scheduled and
\* no further attempt of the call follows, and consecutiveFailures, the
\* failure time, isHealthy and circuitBreakerOpen are unchanged.
C6_PermanentErrorPropagates ==
  [][ \A c \in CallIds :
        /\ ( /\ calls[c].pc = "running"
             /\ calls'[c].pc # "running"
             /\ calls'[c].err = "permanent" )
           => /\ calls'[c].pc = "failed"
              /\ calls'[c].msg \cap RetryableSubstrings = {}
              /\ calls'[c].attempts = calls[c].attempts
              /\ calls'[c].attempts = calls[c].retryCount + 1
              /\ serviceStatus' = serviceStatus
        /\ ( calls[c].pc = "failed" /\ calls[c].err = "permanent" )
           => \/ calls'[c] = calls[c]
              \/ calls'[c].retryCount = 0
    ]_vars

\* C6 witness: a call ended by a permanent error on its first attempt while
\* earlier failures are on record
C6_Witness ==
  \E c \in CallIds :
     /\ calls[c].pc = "failed" /\ calls[c].err = "permanent"
     /\ calls[c].attempts = 1
     /\ serviceStatus.consecutiveFailures > 0
     /\ ~serviceStatus.isHealthy

(* ---------------- properties of the summary actions ---------------- *)

\* C7: an ordinary analysis request does not reset the service status: when
\* summarizeSpreadsheet is called while the circuit breaker is open and the
\* reset timeout has not elapsed, the circuit stays open and the count of
\* consecutive failures and isHealthy stay as they were.
C7_RequestDoesNotReset ==
  [][ \A a \in ActIds :
        ( /\ acts[a].pc \in {"specialized", "parallel"}
          /\ acts'[a].pc = "fallback"
          /\ serviceStatus.circuitBreakerOpen
          /\ serviceStatus.timeSinceLastFailure < resetTimeout )
        => /\ serviceStatus'.circuitBreakerOpen
           /\ serviceStatus'.consecutiveFailures
                = serviceStatus.consecutiveFailures
           /\ serviceStatus'.isHealthy = serviceStatus.isHealthy
    ]_vars

\* C8: when getSummaryActionOptimized or getSummaryActionSmart receives the
\* circuit-open error from its analysis, the step that consumes the
\* rejection returns the action's error result and starts no further call
\* to the AI service.
C8_CircuitOpenSurfaced ==
  [][ \A a \in ActIds :
        ( /\ acts[a].kind \in {"optimized", "smart"}
          /\ acts[a].pc \in {"specialized", "parallel"}
          /\ Rejected(a)
          /\ calls[RejectingCall(a)].err = "circuitOpen"
          /\ acts'[a] # acts[a] )
        => /\ acts'[a].pc = "done"
           /\ acts'[a].outcome = "error"
           /\ \A c \in ActCalls(a) :
                 calls'[c].pc = "running" => calls[c].pc = "running"
    ]_vars

\* C9: a request that arrives for the same text as a request still in
\* progress, which arrived less than CACHE_TTL earlier and has started the
\* analysis, does not start the analysis again: the analysis of one text
\* runs once for the two requests.
C9_SecondRequestReusesFirst ==
  [][ \A a, b \in ActIds :
        ( /\ a # b
          /\ acts[b].pc = "idle" /\ acts'[b].pc # "idle"
          /\ acts'[b].data # ""
          /\ acts[a].data = acts'[b].data
          /\ acts[a].pc \notin {"idle", "done"}
          /\ acts[a].launched = 1
          /\ acts[a].age < CACHE_TTL )
        => acts'[b].launched = 0
    ]_vars

\* C10: a request whose text has an entry younger than CACHE_TTL in the
\* cache returns the stored summary in the step it arrives in, whatever the
\* service status is: no analysis is started, no withRetry call is made and
\* the service status (consecutiveFailures, isHealthy, circuitBreakerOpen
\* and the failure time) is unchanged.
C10_CacheHitFrame ==
  [][ \A a \in ActIds :
        LET k == getCacheKey(acts'[a].data)
        IN ( /\ acts[a].pc = "idle" /\ acts'[a].pc # "idle"
             /\ acts'[a].data # ""
             /\ MapHas(analysisCache, k)
             /\ FreshStamp(cacheTimestamps, k) )
           => /\ acts'[a].pc = "done"
              /\ acts'[a].outcome = "cached"
              /\ acts'[a].summary
                   = analysisCache[MapIndex(analysisCache, k)].value
              /\ acts'[a].launched = 0
              /\ calls' = calls
              /\ serviceStatus' = serviceStatus
              /\ analysisCache' = analysisCache
              /\ cacheTimestamps' = cacheTimestamps
    ]_vars

\* C10 witness: a request was answered from the cache although the circuit
\* breaker was rejecting calls when it arrived, and the breaker is still
\* open after five consecutive failures
C10_Witness ==
  \E a \in ActIds :
     /\ acts[a].outcome = "cached"
     /\ acts[a].arrivedOpen
     /\ serviceStatus.circuitBreakerOpen
     /\ ~serviceStatus.isHealthy
     /\ serviceStatus.consecutiveFailures = failureThreshold

(* ---------------- properties of the analysis cache ---------------- *)

Keys(map) == {map[i].key : i \in DOMAIN map}

\* C11: the cache never holds more than CacheLimit entries, analysisCache
\* and cacheTimestamps hold the same keys (each once), and
\* getCachedAnalysis returns a summary only for a text whose entry is
\* younger than CACHE_TTL.
C11_CacheBounded ==
  /\ Len(analysisCache) <= CacheLimit
  /\ Keys(analysisCache) = Keys(cacheTimestamps)
  /\ Cardinality(Keys(analysisCache)) = Len(analysisCache)
  /\ Cardinality(Keys(cacheTimestamps)) = Len(cacheTimestamps)
  /\ \A d \in Texts :
        getCachedAnalysis(d, analysisCache, cacheTimestamps) # Null
        => \E i \in DOMAIN cacheTimestamps :
              /\ cacheTimestamps[i].key = getCacheKey(d)
              /\ cacheTimestamps[i].age < CACHE_TTL

\* C11 witness: the cache is full after the first text was evicted, it
\* holds an entry that has reached CACHE_TTL, which is not returned, and a
\* younger one, which is
C11_Witness ==
  /\ Len(analysisCache) = CacheLimit
  /\ ~MapHas(analysisCache, getCacheKey(Text(1)))
  /\ \E i \in DOMAIN cacheTimestamps :
        /\ cacheTimestamps[i].age = CACHE_TTL
        /\ getCachedAnalysis(cacheTimestamps[i].key[2], analysisCache,
                             cacheTimestamps) = Null
  /\ getCachedAnalysis(Text(MaxTexts), analysisCache, cacheTimestamps) # Null

(* ---------------- properties of the fallback chain ---------------- *)

IsPrefix(t, u) ==
  /\ Len(t) <= Len(u)
  /\ \A i \in DOMAIN t : t[i] = u[i]

\* C12: executeWithFallback calls the operation with the model
\* configurations in their fixed order, one more each time the call for the
\* previous one has failed; when a call succeeds its result is returned and
\* no further model is tried; the chain fails only when the call for the
\* last configuration has failed.
C12_FallbackOrder ==
  [][ \A a \in ActIds :
        LET fb == <<a, "fallback">>
        IN /\ IsPrefix(acts'[a].tried, MODEL_CONFIGS)
           /\ acts'[a].tried # acts[a].tried
              => /\ acts'[a].tried
                      = Append(acts[a].tried,
                               MODEL_CONFIGS[Len(acts[a].tried) + 1])
                 /\ acts[a].tried = <<>> \/ calls[fb].pc = "failed"
                 /\ calls'[fb].pc \in {"running", "failed"}
                 /\ acts'[a].pc = "fallback"
           /\ ( /\ acts[a].pc = "fallback"
                /\ calls[fb].pc = "ok"
                /\ acts'[a] # acts[a] )
              => /\ acts'[a].pc = "done"
                 /\ acts'[a].outcome = "fresh"
                 /\ acts'[a].summary.data = acts[a].data
                 /\ acts'[a].tried = acts[a].tried
                 /\ calls'[fb] = calls[fb]
           /\ ( /\ acts[a].pc = "fallback"
                /\ acts'[a].pc = "done"
                /\ acts'[a].outcome = "error" )
              => /\ acts[a].tried = MODEL_CONFIGS
                 /\ calls[fb].pc = "failed"
           /\ ( acts[a].pc = "fallback" /\ acts'[a].pc # "fallback" )
              => calls[fb].pc \in {"ok", "failed"}
    ]_vars

\* C12 witness: the second model answered after the first one was refused,
\* and the third one was not tried
C12_Witness ==
  \E a \in ActIds :
     /\ acts[a].pc = "done"
     /\ acts[a].outcome = "fresh"
     /\ acts[a].tried = <<MODEL_CONFIGS[1], MODEL_CONFIGS[2]>>

(* ---------------- properties of the uploader ---------------- *)

\* the file has an entry among the documents, by its name
HasDocument(payload, name) ==
  \E k \in DOMAIN payload.documents : payload.documents[k].fileName = name

\* the file has an entry among the per-file errors, by its name
HasError(payload, name) ==
  \E k \in DOMAIN payload.errors : payload.errors[k].fileName = name

\* C13: a batch signals completion (onProcess) at most once, and only when
\* every accepted file (every file of an allowed type among the first
\* MAX_FILES) has left a document or a per-file error; the documents and
\* the error messages delivered then are together as many as the accepted
\* files.
C13_CompletionOnce ==
  /\ Len(upload.delivered) <= 1
  /\ upload.delivered # <<>> =>
       /\ upload.pending = {}
       /\ upload.remaining = 0
       /\ Len(upload.delivered[1].documents) + Len(upload.delivered[1].errors)
            = Len(upload.valid)
       /\ \A i \in DOMAIN upload.valid :
            \/ HasDocument(upload.delivered[1], upload.valid[i].name)
            \/ HasError(upload.delivered[1], upload.valid[i].name)

\* a batch of three accepted files has completed with a document, an error
\* raised by the parser and an error for a file over the size limit
C13_Witness ==
  /\ Len(upload.valid) = 3
  /\ Len(upload.delivered) = 1
  /\ Len(upload.delivered[1].documents) = 1
  /\ \E k \in 1..2 : upload.delivered[1].errors[k].message = "File exceeds 15MB limit"
  /\ \E k \in 1..2 : upload.delivered[1].errors[k].message = "Failed to process file"

\* validation rejects the file: its declared type is not CSV, XLSX or XLS,
\* or its size is above the limit
RejectedByValidation(file) ==
  \/ file.type \notin allowed
  \/ file.size > MAX_FILE_SIZE_MB * 1024 * 1024

\* C14: every file of a batch that validation rejects (type not CSV, XLSX
\* or XLS, or size above the limit) has its own entry in the per-file
\* errors delivered with the batch result, and the rest of the batch is
\* still ingested: once no read is outstanding, the batch has delivered its
\* result, with an error entry for every rejected file among the first
\* MAX_FILES and a document or an error for every other one.
C14_RejectedFilesReported ==
  (/\ upload.files # <<>>
   /\ upload.pending = {}
   /\ \A i \in DOMAIN upload.files :
        upload.files[i].content.kind # "unreadable")
    => /\ Len(upload.delivered) = 1
       /\ \A i \in DOMAIN upload.files :
            i <= MAX_FILES =>
              IF RejectedByValidation(upload.files[i])
                THEN HasError(upload.delivered[1], upload.files[i].name)
                ELSE \/ HasDocument(upload.delivered[1], upload.files[i].name)
                     \/ HasError(upload.delivered[1], upload.files[i].name)

\* C15: when the analysis that follows an ingestion with at least one
\* document fails, the page state still holds the ingested tables (the
\* parsed data and metrics of the batch), so that the analysis can be run
\* again without another upload.
C15_TablesKeptAfterFailure ==
  (/\ page.error = "analysisError"
   /\ Len(upload.delivered) = 1
   /\ upload.delivered[1].documents # <<>>)
    => /\ page.analysisResult # NoResult
       /\ page.analysisResult.parsedData = upload.delivered[1].parsedData
       /\ page.analysisResult.metrics = upload.delivered[1].metrics

(* ---------------- properties of the combined table ---------------- *)

\* the batch has delivered its result with exactly one document
SingleDelivered ==
  Len(upload.delivered) = 1 /\ Len(upload.delivered[1].documents) = 1

\* C16: for a single document T, repeated header names included, the
\* combined headers are T's headers followed by "Document", and every
\* combined row carries, position by position, the cells of the row of T
\* it comes from (a missing cell reads as the empty string).
C16_SingleDocumentRelabels ==
  SingleDelivered =>
    /\ upload.delivered[1].combinedParsedData.headers
         = Append(upload.delivered[1].documents[1].parsedData.headers, docColumn)
    /\ Len(upload.delivered[1].combinedParsedData.rows)
         = Len(upload.delivered[1].documents[1].parsedData.rows)
    /\ \A r \in DOMAIN upload.delivered[1].documents[1].parsedData.rows :
         \A i \in DOMAIN upload.delivered[1].documents[1].parsedData.headers :
           upload.delivered[1].combinedParsedData.rows[r][i]
             = CellOrBlank(CellAt(upload.delivered[1].documents[1].parsedData.rows[r], i))

\* the batch has delivered its result with at least one document
SomeDelivered ==
  Len(upload.delivered) = 1 /\ upload.delivered[1].documents # <<>>

\* the number of rows of the documents before the k-th
RECURSIVE RowsBefore(_, _)
RowsBefore(documents, k) ==
  IF k <= 1 THEN 0
  ELSE RowsBefore(documents, k - 1) + Len(documents[k - 1].parsedData.rows)

\* the first position of header h in a list of headers
FirstPosition(headers, h) ==
  CHOOSE i \in DOMAIN headers :
    headers[i] = h /\ \A j \in 1..(i - 1) : headers[j] # h

\* the cell document d gives to a combined row under header h: the cell of
\* its (last) column of that name, the empty string when the cell is
\* missing or the document has no such column
SourceCell(d, r, h) ==
  IF \E i \in DOMAIN d.parsedData.headers : d.parsedData.headers[i] = h
    THEN CellOrBlank(
           CellAt(d.parsedData.rows[r],
                  CHOOSE i \in DOMAIN d.parsedData.headers :
                    /\ d.parsedData.headers[i] = h
                    /\ \A j \in DOMAIN d.parsedData.headers :
                         d.parsedData.headers[j] = h => j <= i))
    ELSE Blank

\* the combined headers without the final "Document"
UnionPart(headers) == SubSeq(headers, 1, Len(headers) - 1)

\* the headers are the distinct header names of the documents in order of
\* first appearance, followed by "Document"
IsUnionOf(headers, flat) ==
  /\ headers # <<>>
  /\ headers[Len(headers)] = docColumn
  /\ {UnionPart(headers)[i] : i \in DOMAIN UnionPart(headers)}
       = {flat[i] : i \in DOMAIN flat}
  /\ \A i, j \in DOMAIN UnionPart(headers) :
       i < j => FirstPosition(flat, UnionPart(headers)[i])
                  < FirstPosition(flat, UnionPart(headers)[j])

C18_RowsGroupedByDocument ==
  SomeDelivered =>
    /\ Len(upload.delivered[1].combinedParsedData.rows)
         = RowsBefore(upload.delivered[1].documents,
                      Len(upload.delivered[1].documents) + 1)
    /\ \A i \in DOMAIN upload.delivered[1].combinedParsedData.rows :
         /\ Len(upload.delivered[1].combinedParsedData.rows[i])
              = Len(upload.delivered[1].combinedParsedData.headers)
    /\ \A k \in DOMAIN upload.delivered[1].documents :
         \A r \in DOMAIN upload.delivered[1].documents[k].parsedData.rows :
           /\ upload.delivered[1].combinedParsedData.rows[
                  RowsBefore(upload.delivered[1].documents, k) + r][
                  Len(upload.delivered[1].combinedParsedData.headers)]
                = Str(upload.delivered[1].documents[k].fileName)
           /\ \A c \in DOMAIN upload.delivered[1].documents[k].parsedData.headers :
                \E ui \in DOMAIN UnionPart(upload.delivered[1].combinedParsedData.headers) :
                  /\ upload.delivered[1].combinedParsedData.headers[ui]
                       = upload.delivered[1].documents[k].parsedData.headers[c]
                  /\ upload.delivered[1].combinedParsedData.rows[
                         RowsBefore(upload.delivered[1].documents, k) + r][ui]
                       = SourceCell(upload.delivered[1].documents[k], r,
                                    upload.delivered[1].documents[k].parsedData.headers[c])

\* two documents with two rows and one row have been combined into three
\* rows
C18_Witness ==
  /\ Len(upload.delivered) = 1
  /\ Len(upload.delivered[1].documents) = 2
  /\ Len(upload.delivered[1].documents[1].parsedData.rows) = 2
  /\ Len(upload.delivered[1].documents[2].parsedData.rows) = 1
  /\ Len(upload.delivered[1].combinedParsedData.rows) = 3
  /\ upload.delivered[1].combinedParsedData.rows[3][
         Len(upload.delivered[1].combinedParsedData.headers)]
       = Str(upload.delivered[1].documents[2].fileName)

\* no delivered document has a column of its own called "Document"
NoDocumentHeader ==
  \A k \in DOMAIN upload.delivered[1].documents :
    \A i \in DOMAIN upload.delivered[1].documents[k].parsedData.headers :
      upload.delivered[1].documents[k].parsedData.headers[i] # docColumn

\* C19: the combined metrics exist only for columns listed in the combined
\* numericColumns, whatever the file names and the cells; in particular
\* the synthetic "Document" column has none.
C19_MetricsOnlyForNumericColumns ==
  (SomeDelivered /\ NoDocumentHeader) =>
    \A h \in DOMAIN upload.delivered[1].combinedMetrics :
      \E i \in DOMAIN upload.delivered[1].combinedParsedData.numericColumns :
        upload.delivered[1].combinedParsedData.numericColumns[i] = h

\* the headers of the single delivered document are pairwise different and
\* none of them is "Document"
PlainHeaders ==
  /\ \A i, j \in DOMAIN upload.delivered[1].documents[1].parsedData.headers :
       upload.delivered[1].documents[1].parsedData.headers[i]
         = upload.delivered[1].documents[1].parsedData.headers[j] => i = j
  /\ \A i \in DOMAIN upload.delivered[1].documents[1].parsedData.headers :
       upload.delivered[1].documents[1].parsedData.headers[i] # docColumn

\* C20: the combined table classifies columns by the rule of per-file
\* ingestion: for a single document (with plain headers) the combined
\* numericColumns are the document's numericColumns and every column of
\* the document has the same metrics in both.
C20_SameClassification ==
  (SingleDelivered /\ PlainHeaders) =>
    /\ upload.delivered[1].combinedParsedData.numericColumns
         = upload.delivered[1].documents[1].parsedData.numericColumns
    /\ \A i \in DOMAIN upload.delivered[1].documents[1].parsedData.headers :
         LET h == upload.delivered[1].documents[1].parsedData.headers[i]
         IN /\ (h \in DOMAIN upload.delivered[1].combinedMetrics)
                 <=> (h \in DOMAIN upload.delivered[1].documents[1].metrics)
            /\ h \in DOMAIN upload.delivered[1].documents[1].metrics =>
                 upload.delivered[1].combinedMetrics[h]
                   = upload.delivered[1].documents[1].metrics[h]

(* ---------------- properties of the column metrics ---------------- *)

\* the numbers of column c of document d, in row order
ColumnNumbers(d, c) ==
  [k \in DOMAIN ColumnValues(d.parsedData.rows, c) |->
     NumericValue(ColumnValues(d.parsedData.rows, c)[k])]

\* column c of document d is the one its metrics of that name describe: it
\* is numeric and no later numeric column has its name
DescribedColumn(d, c) ==
  /\ AllNumeric(ColumnValues(d.parsedData.rows, c))
  /\ \A j \in DOMAIN d.parsedData.headers :
       (j > c /\ d.parsedData.headers[j] = d.parsedData.headers[c])
         => ~AllNumeric(ColumnValues(d.parsedData.rows, j))

\* mt is the summary of the numbers nums
Summarises(mt, nums) ==
  /\ mt.total = RatSum(nums)
  /\ mt.average.n * Len(nums) * mt.total.d = mt.total.n * mt.average.d
  /\ \E i \in DOMAIN nums : nums[i] = mt.min
  /\ \E i \in DOMAIN nums : nums[i] = mt.max
  /\ \A i \in DOMAIN nums : ~RatLess(nums[i], mt.min) /\ ~RatLess(mt.max, nums[i])
  /\ ~RatLess(mt.average, mt.min)
  /\ ~RatLess(mt.max, mt.average)
  /\ mt.trend = IF RatLess(nums[1], nums[Len(nums)]) THEN "increase"
                ELSE IF RatLess(nums[Len(nums)], nums[1]) THEN "decrease"
                ELSE "stable"

C28_OpenCircuitUnhealthy ==
  serviceStatus.circuitBreakerOpen =>
    /\ ~serviceStatus.isHealthy
    /\ serviceStatus.consecutiveFailures >= failureThreshold

(* ---------------- properties of the order of documents ---------------- *)

\* the names of the accepted files that ingest successfully, in the order
\* the files were uploaded
IngestedInUploadOrder ==
  LET good == SelectSeq(upload.valid,
                LAMBDA f : /\ f.size <= MAX_FILE_SIZE_MB * 1024 * 1024
                           /\ f.content.kind = "sheet")
  IN [k \in DOMAIN good |-> good[k].name]

\* C29: the documents a batch delivers are in the order the files were
\* uploaded, whatever the order in which the reads complete, and the
\* single-document fileName is that of the first uploaded file that
\* ingested successfully.
C29_DocumentsInUploadOrder ==
  SomeDelivered =>
    /\ upload.delivered[1].fileNames = IngestedInUploadOrder
    /\ upload.delivered[1].fileName = IngestedInUploadOrder[1]

(* ---------------- properties of the combined text ---------------- *)

\* C23: the combined text is, in the order of the document list, one block
\* per document and nothing else: the line "### Document: <fileName>", the
\* document's own text, then a blank line.
C23_TextBlocks ==
  Len(upload.delivered) = 1 =>
    /\ Len(upload.delivered[1].combinedStringData)
         = Len(upload.delivered[1].documents)
    /\ \A k \in DOMAIN upload.delivered[1].documents :
         upload.delivered[1].combinedStringData[k]
           = [heading |-> <<"### Document: ",
                            upload.delivered[1].documents[k].fileName, "\n">>,
              body |-> upload.delivered[1].documents[k].stringData,
              closing |-> "\n\n"]

\* a batch has delivered two documents with different names and texts
C23_Witness ==
  /\ Len(upload.delivered) = 1
  /\ Len(upload.delivered[1].documents) >= 2
  /\ upload.delivered[1].documents[1].fileName
       # upload.delivered[1].documents[2].fileName
  /\ upload.delivered[1].documents[1].stringData
       # upload.delivered[1].documents[2].stringData
  /\ Len(upload.delivered[1].combinedStringData) >= 2

(* ---------------- properties of the eviction ---------------- *)

\* the age of the stored timestamp of key k
StampAge(stamps, k) == stamps[MapIndex(stamps, k)].age

\* C27: when storing a new text pushes the cache over CacheLimit, the
\* entry that is evicted is one with the oldest stored timestamp: no entry
\* that stays has an older timestamp than the evicted one had.
C27_EvictsOldest ==
  [][ ( /\ Len(analysisCache) = CacheLimit
        /\ Keys(analysisCache') \ Keys(analysisCache) # {} )
      => \A k \in Keys(cacheTimestamps) \ Keys(cacheTimestamps') :
           \A j \in Keys(cacheTimestamps) :
             StampAge(cacheTimestamps, k) >= StampAge(cacheTimestamps, j)
    ]_vars

(* ---------------- properties of the fallback models ---------------- *)

\* C26: when the call for a model has failed with retryable (overload)
\* errors on every attempt, executeWithFallback moves to the next model and
\* that model's flow is invoked at least once: the circuit opened by the
\* failures of the earlier model does not reject the call of the next one.
C26_FallbackModelsInvoked ==
  [][ \A a \in LegacyActs :
        ( /\ acts[a].pc = "fallback"
          /\ calls[<<a, "fallback">>].err \in {"tripped", "exhausted"}
          /\ acts'[a].modelIdx = acts[a].modelIdx + 1 )
        => /\ calls'[<<a, "fallback">>].pc = "running"
           /\ calls'[<<a, "fallback">>].attempts >= 1
    ]_vars

(* ---------------- properties of the completion of a batch ---------------- *)

\* C25: every batch with at least one accepted file eventually signals
\* completion (onProcess is called), whatever the outcome of each read,
\* a read that ends in a reader error included.
C25_BatchCompletes ==
  (upload.valid # <<>>) ~> (upload.delivered # <<>>)

(* ---------------- properties of the normalizer ---------------- *)

\* the text of the cell of the sheet that was read
CellText == upload.valid[1].content.json[2][1].s

\* what parseNumericString returned for the cell, as the document shows it
Returned ==
  IF upload.delivered[1].documents[1].parsedData.numericColumns = <<>>
    THEN NaN
    ELSE [ok |-> TRUE,
          v |-> upload.delivered[1].documents[1].metrics["Value"].total]

Letters == {"a", "b", "c"}

\* the text holds a character that belongs to none of the supported forms
Malformed(chars) == \E i \in DOMAIN chars : chars[i] \in Letters

\* C24: parseNumericString returns 1234.50 for "$1,234.50", 0.12 for "12%"
\* and -45 for "(45)", and null for a text that is not a well-formed number
\* of a supported form, such as digits followed by letters.
C24_NormalizerResults ==
  ( /\ Len(upload.delivered) = 1
    /\ Len(upload.valid[1].content.json) = 2
    /\ upload.delivered[1].documents # <<>> )
  => /\ CellText = CurrencyExample
          => Returned = [ok |-> TRUE, v |-> Rat(2469, 2)]
     /\ CellText = PercentExample
          => Returned = [ok |-> TRUE, v |-> Rat(3, 25)]
     /\ CellText = ParensExample
          => Returned = [ok |-> TRUE, v |-> Rat(-45, 1)]
     /\ Malformed(CellText) => ~Returned.ok

(* ---------------- properties of the chat ---------------- *)

MessagesOf(history, sender) ==
  Cardinality({i \in DOMAIN history : history[i].sender = sender})

\* C30: whatever the interleaving of questions and responses, a message
\* that is shown stays in the chat history when a question or a response
\* is applied, and once no question waits for its response the history
\* holds one AI reply per question after the AI's opening message.
C30_ChatHistoryComplete ==
  [][ ( /\ page.analysisResult # NoResult
        /\ page'.analysisResult # NoResult )
      => /\ IsPrefix(page.analysisResult.chatHistory,
                     page'.analysisResult.chatHistory)
         /\ page'.asking = <<>>
              => MessagesOf(page'.analysisResult.chatHistory, "ai")
                   = MessagesOf(page'.analysisResult.chatHistory, "user") + 1
    ]_vars

====
